---- MODULE Spec2Model ----
(***************************************************************************)
(* Model of the workflow engine of the deep research agent                 *)
(* (src/coordination/workflow_engine.py), and, further down, of the task   *)
(* coordinator and the orchestrator that feed it.                          *)
(*                                                                         *)
(* One workflow id is modelled.  A workflow is a list of steps; each step  *)
(* carries its configuration (step_id, agent_name, dependencies) and its   *)
(* mutable fields (status, result, error).  execute_workflow runs as a     *)
(* coroutine: everything between two awaits is one atomic stretch of the   *)
(* event loop, the only await of the engine is asyncio.gather in           *)
(* _execute_steps, and there the launched _execute_step coroutines         *)
(* interleave with each other and with calls of cancel_workflow.           *)
(* Timestamps (created_at, started_at, completed_at) and the print calls   *)
(* are left out: no decision of the engine reads them.  Step ids are       *)
(* unique within the workflow and a dependency list names no step twice.   *)
(***************************************************************************)
EXTENDS Integers, Sequences, FiniteSets, TLC

\* -----------------------------------------------------------------------
\* Bounds of the explored inputs
\* -----------------------------------------------------------------------
\* Largest total number of declared dependencies in a workflow.
MaxEdges == 3
\* Largest number of execute_workflow calls on the workflow.
MaxRuns == 2
\* Largest number of tasks handed to add_task_to_queue.
MaxTasks == 2
\* Largest number of start_system calls.
MaxStarts == 2
\* Largest access_count a knowledge node is read up to.
MaxReads == 2
\* Largest number of relationships added from one node.
MaxRelations == 1

\* Step ids a workflow is built from, in list order: a workflow of n steps
\* has the first n of them.
StepPool == <<"A", "B", "C">>
StepIds == {StepPool[i] : i \in 1..Len(StepPool)}
\* Names a dependency may carry: the ids of the pool.  In a workflow of fewer
\* steps than the pool the remaining ids name no step of the workflow, so a
\* dependency on one of them is a dangling dependency.
DepNames == StepIds
\* Names a step's agent_name may carry, and the agents tables a caller may
\* pass to execute_workflow.
AgentNames == {"SearchAgent", "WriterAgent"}
AgentTables == {{"SearchAgent"}, {"SearchAgent", "WriterAgent"}}
\* Error texts a worker may raise with.
WorkerErrors == {"worker error"}
\* The data of a step's task as create_workflow receives it: unset, or a
\* payload of the step's own.
SetData == "own payload"
\* The one workflow id.
wid == "wf"

None == "None"
\* A worker result that is an empty dict, which Python takes for false.
EmptyDict == "{}"

\* TaskStatus, workflow_engine.py lines 9-15
PENDING == "pending"
IN_PROGRESS == "in_progress"
COMPLETED == "completed"
FAILED == "failed"
CANCELLED == "cancelled"
TaskStatus == {PENDING, IN_PROGRESS, COMPLETED, FAILED, CANCELLED}

VARIABLES
    workflows,         \* self.workflows: workflow id -> list of step configurations
    status,            \* step id -> WorkflowStep.status
    result,            \* step id -> WorkflowStep.result
    error,             \* step id -> WorkflowStep.error
    active_workflows,  \* self.active_workflows: workflow id -> record
    workflow_history,  \* self.workflow_history
    pc,                \* position of the execute_workflow coroutine
    agents,            \* the agents argument of the running execute_workflow
    results,           \* local results of _execute_steps
    completed_steps,   \* local completed_steps of _execute_steps
    ready_steps,       \* local ready_steps of the current round
    tasks,             \* local tasks: the step each coroutine was created for
    coros,             \* state of each _execute_step coroutine under gather
    last_return,       \* how the last execute_workflow call ended
    worker_calls,      \* step id -> how often agent.process_task was called for it, and how often it raised
    task_queue,        \* TaskCoordinator.task_queue: the numbers of the queued task dicts
    active_tasks,      \* TaskCoordinator.active_tasks: task id -> number of the task dict
    task_history,      \* TaskCoordinator.task_history: the numbers of the task dicts moved there
    task_dicts,        \* the task dicts handed to add_task_to_queue, in submission order
    system_status,     \* AgentOrchestrator.system_status
    loops,             \* the _process_background_tasks coroutines, in creation order
    caller,            \* the coroutine that calls research, analyze_data, generate_content
    turn,              \* the drain loop that is running between two awaits, 0 when none is
    clock,             \* the last reading of datetime.now() in add_task_to_queue
    reply,             \* what the last status query or memory read returned to its caller
    stores,            \* store name -> the data and metadata dicts of that BaseMemory
    knowledge_graph,   \* SharedKnowledgeRepository.knowledge_graph
    relationships,     \* SharedKnowledgeRepository.relationships
    knowledge_sources, \* SharedKnowledgeRepository.knowledge_sources
    fact_checks,       \* VerificationMemory.fact_checks
    validations,       \* VerificationMemory.validations
    snapshot,          \* <<the string the last export_knowledge call returned>>, <<>> before it
    search_results,    \* SearchMemory.search_results, in insertion order: <<query, results>> pairs
    parsed_data        \* SearchMemory.parsed_data, in insertion order: <<source, data>> pairs

vars == <<workflows, status, result, error, active_workflows, workflow_history,
          pc, agents, results, completed_steps, ready_steps, tasks, coros,
          last_return, worker_calls>>

coordVars == <<task_queue, active_tasks, task_history, task_dicts, system_status,
               loops, caller, turn, clock>>
allVars == <<vars, coordVars>>
tierVars == <<search_results, parsed_data>>
memVars == <<reply, stores, knowledge_graph, relationships, knowledge_sources,
             fact_checks, validations, snapshot, tierVars>>
everyVars == <<vars, coordVars, memVars>>

\* src/memory/__init__.py and shared_knowledge.py lines 22-26: the four tiers
\* and the repository that holds them
Tiers == {"SearchMemory", "AnalysisMemory", "VerificationMemory", "ContentMemory"}
Stores == Tiers \cup {"SharedKnowledgeRepository"}

stepVars == <<status, result, error>>
localVars == <<agents, results, completed_steps, ready_steps, tasks, coros>>

\* -----------------------------------------------------------------------
\* Helpers
\* -----------------------------------------------------------------------
\* dict[key] = value
Put(f, k, v) == [x \in DOMAIN f \cup {k} |-> IF x = k THEN v ELSE f[x]]

\* Lists without repetition over S of length at most n.
ListsOver(S, n) ==
    {l \in UNION {[1..k -> S] : k \in 0..n} :
        \A i, j \in 1..Len(l) : i # j => l[i] # l[j]}

\* The step lists create_workflow is called with: n steps carrying the first
\* n ids of StepPool, agent names from names, task data from datas, and
\* dependency lists of total length at most budget.
RECURSIVE StepListsOf(_, _, _, _)
StepListsOf(n, budget, names, datas) ==
    IF n = 0 THEN {<<>>}
    ELSE UNION {{Append(l, [step_id |-> StepPool[n], agent_name |-> a,
                            task |-> [data |-> dt], dependencies |-> d]) :
                    l \in StepListsOf(n - 1, budget - Len(d), names, datas),
                    a \in names, dt \in datas} :
                d \in ListsOver(DepNames, budget)}

\* Workflows with any agent names, whose steps all leave their data unset.
StepLists ==
    UNION {StepListsOf(n, MaxEdges, AgentNames, {None}) : n \in 0..Len(StepPool)}

\* Workflows whose agents are all in every agents table, with the data of
\* each step set or unset.
HandoffLists ==
    UNION {StepListsOf(n, MaxEdges, {"SearchAgent"}, {None, SetData}) :
              n \in 0..Len(StepPool)}

\* The steps of the workflow, as the list of their ids.
steps == [i \in 1..Len(workflows[wid]) |-> workflows[wid][i].step_id]
StepSet == {steps[i] : i \in 1..Len(steps)}
Cfg(s) == workflows[wid][CHOOSE i \in 1..Len(workflows[wid]) : workflows[wid][i].step_id = s]
dependencies(s) == Cfg(s).dependencies
agent_name(s) == Cfg(s).agent_name
task(s) == Cfg(s).task
DepSet(s) == {dependencies(s)[i] : i \in 1..Len(dependencies(s))}

Init ==
    /\ workflows = <<>>
    /\ status = <<>>
    /\ result = <<>>
    /\ error = <<>>
    /\ active_workflows = <<>>
    /\ workflow_history = <<>>
    /\ pc = "idle"
    /\ agents = {}
    /\ results = <<>>
    /\ completed_steps = {}
    /\ ready_steps = <<>>
    /\ tasks = <<>>
    /\ coros = <<>>
    /\ last_return = [kind |-> "none"]
    /\ worker_calls = <<>>
    /\ task_queue = <<>>
    /\ active_tasks = <<>>
    /\ task_history = <<>>
    /\ task_dicts = <<>>
    /\ system_status = [initialized |-> TRUE]
    /\ loops = <<>>
    /\ caller = [pc |-> "idle"]
    /\ turn = 0
    /\ clock = 0
    /\ reply = [op |-> "none"]
    /\ search_results = <<>>
    /\ parsed_data = <<>>
    /\ stores = [t \in Stores |-> [data |-> <<>>, metadata |-> <<>>]]
    /\ knowledge_graph = <<>>
    /\ relationships = <<>>
    /\ knowledge_sources = <<>>
    /\ fact_checks = <<>>
    /\ validations = <<>>
    /\ snapshot = <<>>

\* create_workflow, lines 43-57 (called once: a second call would replace
\* the step objects by fresh ones).
CreateWorkflow(cfgs) ==
    /\ UNCHANGED <<coordVars, memVars>>
    /\ pc = "idle"
    /\ wid \notin DOMAIN workflows
    /\ workflows' = Put(workflows, wid, cfgs)
    /\ status' = [i \in {cfgs[j].step_id : j \in 1..Len(cfgs)} |-> PENDING]
    /\ result' = [i \in {cfgs[j].step_id : j \in 1..Len(cfgs)} |-> None]
    /\ error' = [i \in {cfgs[j].step_id : j \in 1..Len(cfgs)} |-> None]
    /\ worker_calls' = [i \in {cfgs[j].step_id : j \in 1..Len(cfgs)} |->
            [calls |-> 0, raised |-> 0, returned |-> None, data |-> None]]
    /\ UNCHANGED <<active_workflows, workflow_history, pc, last_return>>
    /\ UNCHANGED localVars

\* -----------------------------------------------------------------------
\* _execute_steps: the pieces of one scheduling round
\* -----------------------------------------------------------------------
\* Variants of the dependency test that a slip in line 124 would produce:
\* any() for all(), only the first dependency tested, and dependencies that
\* name no step skipped.
DepsSatisfiedAny(deps, cs) == \E i \in 1..Len(deps) : deps[i] \in cs
DepsSatisfiedFirst(deps, cs) == deps = <<>> \/ deps[1] \in cs
DepsSatisfiedKnown(deps, cs) ==
    \A i \in 1..Len(deps) : deps[i] \in cs \/ deps[i] \notin StepSet

\* line 124: all(dep in completed_steps for dep in step.dependencies)
DepsSatisfied(deps, cs) == \A i \in 1..Len(deps) : deps[i] \in cs

\* lines 121-125: the PENDING steps whose dependencies are all in
\* completed_steps, in list order
ReadySteps(st, cs) ==
    SelectSeq(steps, LAMBDA s : st[s] = PENDING /\ DepsSatisfied(dependencies(s), cs))

\* Variant of line 132 that looks for the wrong status.
RemainingStepsInProgress(st) == SelectSeq(steps, LAMBDA s : st[s] = IN_PROGRESS)

\* line 132
RemainingSteps(st) == SelectSeq(steps, LAMBDA s : st[s] = PENDING)

\* lines 142-154: one coroutine per ready step whose agent is in the table
Tasks(ready, tbl) == SelectSeq(ready, LAMBDA s : agent_name(s) \in tbl)

\* line 157
NotFoundError(name) == "Agent " \o name \o " not found"

\* Variant of lines 155-157 that forgets to set the status.
StatusAfterLaunchKept(st, ready, tbl) == st

\* lines 155-157: the ready steps whose agent is not in the table fail at once
StatusAfterLaunch(st, ready, tbl) ==
    [s \in DOMAIN st |->
        IF \E i \in 1..Len(ready) : ready[i] = s /\ agent_name(s) \notin tbl
        THEN FAILED ELSE st[s]]

ErrorAfterLaunch(er, ready, tbl) ==
    [s \in DOMAIN er |->
        IF \E i \in 1..Len(ready) : ready[i] = s /\ agent_name(s) \notin tbl
        THEN NotFoundError(agent_name(s)) ELSE er[s]]

\* line 163: the step the i-th gathered result is booked on
StepOfResult(ready, tks, i) == ready[i]

\* lines 162-173: book the gathered results, from the i-th on, on the steps
RECURSIVE BookResults(_, _, _, _, _)
BookResults(acc, ready, tks, outs, i) ==
    IF i > Len(outs) THEN acc
    ELSE LET step == StepOfResult(ready, tks, i)
             out == outs[i]
             nxt == IF out.state = "raised"
                    THEN [acc EXCEPT !.status[step] = FAILED,
                                     !.error[step] = out.value]
                    ELSE [acc EXCEPT !.status[step] = COMPLETED,
                                     !.result[step] = out.value,
                                     !.results = Put(acc.results, step, out.value),
                                     !.completed_steps = acc.completed_steps \cup {step}]
         IN BookResults(nxt, ready, tks, outs, i + 1)

\* A value the worker of step s returns.
WorkerOutput(s) == "output of " \o s

\* Python's truth value of a result
Truthy(v) == v \notin {None, EmptyDict}

\* lines 145-150: the result of the last dependency, when it has one
PreviousResults(deps, res) ==
    IF deps # <<>> /\ deps[Len(deps)] \in DOMAIN res
    THEN res[deps[Len(deps)]] ELSE None

\* Variant of lines 184-187 that leaves the data of the task alone.
TaskDataKept(tk, previous) == tk.data

\* lines 184-187: the data of the task passed to process_task
TaskData(tk, previous) ==
    IF tk.data = None /\ Truthy(previous) THEN previous ELSE tk.data

\* -----------------------------------------------------------------------
\* execute_workflow
\* -----------------------------------------------------------------------
ResetLocals ==
    /\ agents' = {}
    /\ results' = <<>>
    /\ completed_steps' = {}
    /\ ready_steps' = <<>>
    /\ tasks' = <<>>
    /\ coros' = <<>>

\* Variant of lines 61-69 that records the call as running before the lookup.
ExecuteUnknownRecorded ==
    /\ UNCHANGED <<coordVars, memVars>>
    /\ pc = "idle"
    /\ wid \notin DOMAIN workflows
    /\ active_workflows' = Put(active_workflows, wid, [status |-> "running"])
    /\ last_return' = [kind |-> "raise", error |-> "Workflow " \o wid \o " not found"]
    /\ UNCHANGED <<workflows, status, result, error, workflow_history, pc,
                   worker_calls>>
    /\ UNCHANGED localVars

\* lines 61-62: the workflow was never created
ExecuteUnknown ==
    /\ UNCHANGED <<coordVars, memVars>>
    /\ pc = "idle"
    /\ wid \notin DOMAIN workflows
    /\ last_return' = [kind |-> "raise", error |-> "Workflow " \o wid \o " not found"]
    /\ UNCHANGED <<workflows, status, result, error, active_workflows,
                   workflow_history, pc, worker_calls>>
    /\ UNCHANGED localVars

\* Variant of execute_workflow that sets every step back to PENDING first.
ExecuteWorkflowReset(tbl) ==
    /\ UNCHANGED <<coordVars, memVars>>
    /\ pc = "idle"
    /\ wid \in DOMAIN workflows
    /\ Len(workflow_history) < MaxRuns
    /\ active_workflows' = Put(active_workflows, wid, [status |-> "running"])
    /\ agents' = tbl
    /\ results' = <<>>
    /\ completed_steps' = {}
    /\ pc' = "loop"
    /\ last_return' = [kind |-> "pending"]
    /\ status' = [s \in DOMAIN status |-> PENDING]
    /\ UNCHANGED <<workflows, result, error, workflow_history,
                   ready_steps, tasks, coros, worker_calls>>

\* lines 64-73 and 111-112: the call up to the head of the while loop
ExecuteWorkflow(tbl) ==
    /\ UNCHANGED <<coordVars, memVars>>
    /\ pc = "idle"
    /\ wid \in DOMAIN workflows
    /\ Len(workflow_history) < MaxRuns
    /\ active_workflows' = Put(active_workflows, wid, [status |-> "running"])
    /\ agents' = tbl
    /\ results' = <<>>
    /\ completed_steps' = {}
    /\ pc' = "loop"
    /\ last_return' = [kind |-> "pending"]
    /\ UNCHANGED <<workflows, status, result, error, workflow_history,
                   ready_steps, tasks, coros, worker_calls>>

\* Variant of lines 75-92 that keeps a cancelled status and records it.
EndCompletedUnlessCancelled(res) ==
    LET st == IF active_workflows[wid].status = "cancelled"
              THEN "cancelled" ELSE "completed"
    IN /\ active_workflows' = [active_workflows EXCEPT ![wid].status = st]
       /\ workflow_history' = Append(workflow_history,
               [workflow_id |-> wid, status |-> st, results |-> res])
       /\ last_return' = [kind |-> "return", workflow_id |-> wid,
                          status |-> st, results |-> res]
       /\ pc' = "idle"
       /\ ResetLocals

\* lines 75-92: _execute_steps returned res
EndCompleted(res) ==
    /\ active_workflows' = [active_workflows EXCEPT ![wid].status = "completed"]
    /\ workflow_history' = Append(workflow_history,
            [workflow_id |-> wid, status |-> "completed", results |-> res])
    /\ last_return' = [kind |-> "return", workflow_id |-> wid,
                       status |-> "completed", results |-> res]
    /\ pc' = "idle"
    /\ ResetLocals

\* Variant of lines 94-107 that leaves the history alone.
EndFailedUnrecorded(msg) ==
    /\ active_workflows' = [active_workflows EXCEPT
            ![wid] = Put([active_workflows[wid] EXCEPT !.status = "failed"], "error", msg)]
    /\ workflow_history' = workflow_history
    /\ last_return' = [kind |-> "raise", error |-> msg]
    /\ pc' = "idle"
    /\ ResetLocals

\* lines 94-107: _execute_steps raised msg
EndFailed(msg) ==
    /\ active_workflows' = [active_workflows EXCEPT
            ![wid] = Put([active_workflows[wid] EXCEPT !.status = "failed"], "error", msg)]
    /\ workflow_history' = Append(workflow_history,
            [workflow_id |-> wid, status |-> "failed", error |-> msg])
    /\ last_return' = [kind |-> "raise", error |-> msg]
    /\ pc' = "idle"
    /\ ResetLocals

StallError == "Circular dependency or missing dependency in workflow"

\* line 119 false: every step is in completed_steps; line 175
WhileExit ==
    /\ UNCHANGED <<coordVars, memVars>>
    /\ pc = "loop"
    /\ ~(Cardinality(completed_steps) < Len(steps))
    /\ EndCompleted(results)
    /\ UNCHANGED <<workflows, status, result, error, worker_calls>>

\* lines 130-138: no ready step and a PENDING step left
Stall ==
    /\ UNCHANGED <<coordVars, memVars>>
    /\ pc = "loop"
    /\ Cardinality(completed_steps) < Len(steps)
    /\ ReadySteps(status, completed_steps) = <<>>
    /\ RemainingSteps(status) # <<>>
    /\ EndFailed(StallError)
    /\ UNCHANGED <<workflows, status, result, error, worker_calls>>

\* lines 130-133, 139 and 175: no ready step and no PENDING step left
Break ==
    /\ UNCHANGED <<coordVars, memVars>>
    /\ pc = "loop"
    /\ Cardinality(completed_steps) < Len(steps)
    /\ ReadySteps(status, completed_steps) = <<>>
    /\ RemainingSteps(status) = <<>>
    /\ EndCompleted(results)
    /\ UNCHANGED <<workflows, status, result, error, worker_calls>>

\* lines 141-160: the coroutines of the round are created, the ready steps
\* without an agent fail, and gather is awaited when there is a coroutine
LaunchRound ==
    /\ UNCHANGED <<coordVars, memVars>>
    /\ pc = "loop"
    /\ Cardinality(completed_steps) < Len(steps)
    /\ LET ready == ReadySteps(status, completed_steps)
           tks == Tasks(ready, agents)
       IN /\ ready # <<>>
          /\ ready_steps' = ready
          /\ tasks' = tks
          /\ coros' = [i \in 1..Len(tks) |->
                [state |-> "created", value |-> None,
                 previous |-> PreviousResults(dependencies(tks[i]), results)]]
          /\ status' = StatusAfterLaunch(status, ready, agents)
          /\ error' = ErrorAfterLaunch(error, ready, agents)
          /\ pc' = IF tks # <<>> THEN "gather" ELSE "loop"
    /\ UNCHANGED <<workflows, result, active_workflows, workflow_history,
                   agents, results, completed_steps, last_return, worker_calls>>

\* lines 179-189: the i-th coroutine starts (gather starts them in order) and
\* calls its agent's process_task
StartStep(i) ==
    /\ UNCHANGED <<coordVars, memVars>>
    /\ pc = "gather"
    /\ i \in 1..Len(tasks)
    /\ coros[i].state = "created"
    /\ \A j \in 1..(i - 1) : coros[j].state # "created"
    /\ status' = [status EXCEPT ![tasks[i]] = IN_PROGRESS]
    /\ worker_calls' = [worker_calls EXCEPT
            ![tasks[i]].calls = @ + 1,
            ![tasks[i]].data = TaskData(task(tasks[i]), coros[i].previous)]
    /\ coros' = [coros EXCEPT ![i].state = "running"]
    /\ UNCHANGED <<workflows, result, error, active_workflows, workflow_history,
                   pc, agents, results, completed_steps, ready_steps, tasks,
                   last_return>>

\* lines 189-191: process_task returns v
WorkerReturnsValue(i, v) ==
    /\ UNCHANGED <<coordVars, memVars>>
    /\ pc = "gather"
    /\ i \in 1..Len(tasks)
    /\ coros[i].state = "running"
    /\ coros' = [coros EXCEPT ![i].state = "returned", ![i].value = v]
    /\ worker_calls' = [worker_calls EXCEPT ![tasks[i]].returned = v]
    /\ UNCHANGED <<workflows, status, result, error, active_workflows,
                   workflow_history, pc, agents, results, completed_steps,
                   ready_steps, tasks, last_return>>

\* process_task returns a non-empty result
WorkerReturns(i) ==
    /\ i \in 1..Len(tasks)
    /\ WorkerReturnsValue(i, WorkerOutput(tasks[i]))

\* process_task returns an empty dict
WorkerReturnsEmpty(i) == WorkerReturnsValue(i, EmptyDict)

\* lines 192-196: process_task raises e
WorkerRaises(i, e) ==
    /\ UNCHANGED <<coordVars, memVars>>
    /\ pc = "gather"
    /\ i \in 1..Len(tasks)
    /\ coros[i].state = "running"
    /\ status' = [status EXCEPT ![tasks[i]] = FAILED]
    /\ error' = [error EXCEPT ![tasks[i]] = e]
    /\ coros' = [coros EXCEPT ![i].state = "raised", ![i].value = e]
    /\ worker_calls' = [worker_calls EXCEPT ![tasks[i]].raised = @ + 1]
    /\ UNCHANGED <<workflows, result, active_workflows, workflow_history, pc,
                   agents, results, completed_steps, ready_steps, tasks,
                   last_return>>

\* Variant of line 160 in which the await ends with the first coroutine that
\* ends (asyncio.wait with FIRST_COMPLETED).
GatheredFirst(cs) == \E i \in 1..Len(cs) : cs[i].state \in {"returned", "raised"}

\* line 160: asyncio.gather with return_exceptions=True ends when every
\* coroutine has returned or raised
Gathered(cs) == \A i \in 1..Len(cs) : cs[i].state \in {"returned", "raised"}

\* lines 160-173: gather returns when every coroutine has ended, and the
\* results are booked
GatherDone ==
    /\ UNCHANGED <<coordVars, memVars>>
    /\ pc = "gather"
    /\ Gathered(coros)
    /\ LET acc == BookResults([status |-> status, result |-> result, error |-> error,
                               results |-> results, completed_steps |-> completed_steps],
                              ready_steps, tasks, coros, 1)
       IN /\ status' = acc.status
          /\ result' = acc.result
          /\ error' = acc.error
          /\ results' = acc.results
          /\ completed_steps' = acc.completed_steps
    /\ pc' = "loop"
    /\ UNCHANGED <<workflows, active_workflows, workflow_history, agents,
                   ready_steps, tasks, coros, last_return, worker_calls>>

\* Variant of cancel_workflow that also cancels the steps still PENDING.
CancelWorkflowSteps ==
    /\ UNCHANGED <<coordVars, memVars>>
    /\ pc \in {"idle", "gather"}
    /\ wid \in DOMAIN active_workflows
    /\ active_workflows' = [active_workflows EXCEPT ![wid].status = "cancelled"]
    /\ status' = [s \in DOMAIN status |->
                    IF status[s] = PENDING THEN CANCELLED ELSE status[s]]
    /\ UNCHANGED <<workflows, result, error, workflow_history, pc,
                   last_return, worker_calls>>
    /\ UNCHANGED localVars

\* cancel_workflow, lines 208-213, called by another coroutine while
\* execute_workflow is suspended in gather or is not running.  (For a
\* workflow without a record it returns False and changes nothing.)
CancelWorkflow ==
    /\ UNCHANGED <<coordVars, memVars>>
    /\ pc \in {"idle", "gather"}
    /\ wid \in DOMAIN active_workflows
    /\ active_workflows' = [active_workflows EXCEPT ![wid].status = "cancelled"]
    /\ UNCHANGED <<workflows, status, result, error, workflow_history, pc,
                   last_return, worker_calls>>
    /\ UNCHANGED localVars

\* The steps of the running execute_workflow coroutine and of its workers.
EngineStep ==
    \/ WhileExit
    \/ Stall
    \/ Break
    \/ LaunchRound
    \/ GatherDone
    \/ \E i \in 1..Len(StepPool) : StartStep(i)
    \/ \E i \in 1..Len(StepPool) : WorkerReturns(i)
    \/ \E i \in 1..Len(StepPool), e \in WorkerErrors : WorkerRaises(i, e)

Next ==
    \/ wid \notin DOMAIN workflows /\ \E cfgs \in StepLists : CreateWorkflow(cfgs)
    \/ ExecuteUnknown
    \/ \E tbl \in AgentTables : ExecuteWorkflow(tbl)
    \/ CancelWorkflow
    \/ EngineStep

Spec == Init /\ [][Next]_vars

\* The event loop keeps running the coroutine of execute_workflow, and every
\* launched worker call returns or raises.
FairSpec == Spec /\ WF_vars(EngineStep)

\* The engine on workflows whose steps have their data set or unset and
\* whose workers may return an empty result.
HandoffNext ==
    \/ wid \notin DOMAIN workflows /\ \E cfgs \in HandoffLists : CreateWorkflow(cfgs)
    \/ ExecuteUnknown
    \/ \E tbl \in AgentTables : ExecuteWorkflow(tbl)
    \/ CancelWorkflow
    \/ EngineStep
    \/ \E i \in 1..Len(StepPool) : WorkerReturnsEmpty(i)

HandoffSpec == Init /\ [][HandoffNext]_vars

\* -----------------------------------------------------------------------
\* The task coordinator and the orchestrator
\* (src/coordination/task_coordinator.py, agent_orchestrator.py)
\*
\* A queued task is a dict object shared by task_queue, active_tasks and
\* task_history: task_dicts holds the objects, in submission order, and the
\* three containers hold their numbers.  Every drain loop started by
\* start_system and the caller of the synchronous entry points are
\* coroutines of one event loop: a coroutine runs alone from one await to
\* the next.  turn is the drain loop that is in the middle of such a stretch
\* (0 when none is), so that the stretch can be followed line by line.  The
\* workflow a coroutine executes is the engine's run on the step objects
\* create_workflow made for it; its only await is the gather of a round.
\* The timestamps of the tasks and the counters of system_status, which no
\* decision reads, are left out.
\* -----------------------------------------------------------------------
\* lines 24-29 of agent_orchestrator.py
OrchestratorAgents == {"SearchAgent", "AnalystAgent", "CriticAgent", "WriterAgent"}

\* The dicts handed to add_task_to_queue: the one add_research_task makes,
\* one of a type the drain does not know, and a research task without its
\* query.
TaskInputs ==
    { [type |-> "research", query |-> "q"],
      [type |-> "translate"],
      [type |-> "research"] }

\* The dicts add_analysis_task and add_content_task make.
OtherTaskInputs ==
    { [type |-> "analysis", data |-> "d"],
      [type |-> "content", data |-> "d"] }

EntryPoints == {"research", "analyze_data", "generate_content"}

\* line 144: the id is the formatted reading of the clock
TaskId(t) == "task_" \o ToString(t)

StepConfig(id, agent, deps) ==
    [step_id |-> id, agent_name |-> agent, task |-> [data |-> None],
     dependencies |-> deps]

\* task_coordinator.py lines 31-71
create_research_workflow ==
    << StepConfig("search_step", "SearchAgent", <<>>),
       StepConfig("analysis_step", "AnalystAgent", <<"search_step">>),
       StepConfig("verification_step", "CriticAgent", <<"analysis_step">>),
       StepConfig("content_step", "WriterAgent", <<"verification_step">>) >>

\* task_coordinator.py lines 80-100
create_analysis_workflow ==
    << [StepConfig("analysis_step", "AnalystAgent", <<>>) EXCEPT !.task.data = SetData],
       StepConfig("verification_step", "CriticAgent", <<"analysis_step">>) >>

\* task_coordinator.py lines 109-120
create_content_workflow ==
    << [StepConfig("content_step", "WriterAgent", <<>>) EXCEPT !.task.data = SetData] >>

\* The step objects create_workflow makes from a list of configurations,
\* with the locals of _execute_steps on them.
NewRun(cfgs) ==
    LET ids == {cfgs[j].step_id : j \in 1..Len(cfgs)}
    IN [steps |-> cfgs,
        status |-> [s \in ids |-> PENDING],
        result |-> [s \in ids |-> None],
        error |-> [s \in ids |-> None],
        results |-> <<>>,
        completed_steps |-> {},
        ready_steps |-> <<>>,
        tasks |-> <<>>,
        received |-> <<>>]

StepIdsOf(cfgs) == [i \in 1..Len(cfgs) |-> cfgs[i].step_id]

\* workflow_engine.py lines 119-160 on the step objects of run r: the rounds
\* of _execute_steps up to the next gather ("await"), the return of the
\* results or the stall exception.  A launched coroutine sets its step
\* IN_PROGRESS when it starts (line 179) and calls its worker with the data of
\* lines 183-189, kept in received.
RECURSIVE ExecuteSteps(_, _)
ExecuteSteps(r, agts) ==
    IF ~(Cardinality(r.completed_steps) < Len(r.steps))
    THEN [kind |-> "return", run |-> r, error |-> None]
    ELSE LET ready == SelectSeq(r.steps, LAMBDA c :
                        /\ r.status[c.step_id] = PENDING
                        /\ DepsSatisfied(c.dependencies, r.completed_steps))
             remaining == SelectSeq(r.steps, LAMBDA c : r.status[c.step_id] = PENDING)
             tks == SelectSeq(ready, LAMBDA c : c.agent_name \in agts)
             missing == {ready[i].step_id : i \in {j \in 1..Len(ready) :
                                                    ready[j].agent_name \notin agts}}
             launched == {tks[i].step_id : i \in 1..Len(tks)}
             r1 == [r EXCEPT
                      !.status = [s \in DOMAIN @ |->
                                    IF s \in missing THEN FAILED
                                    ELSE IF s \in launched THEN IN_PROGRESS
                                    ELSE @[s]],
                      !.error = [s \in DOMAIN @ |->
                                    IF s \in missing
                                    THEN NotFoundError((CHOOSE i \in 1..Len(ready) :
                                             ready[i].step_id = s).agent_name)
                                    ELSE @[s]],
                      !.ready_steps = StepIdsOf(ready),
                      !.tasks = StepIdsOf(tks),
                      !.received = [s \in launched |->
                          LET c == CHOOSE c \in {tks[i] : i \in 1..Len(tks)} :
                                      c.step_id = s
                          IN TaskData(c.task,
                                      PreviousResults(c.dependencies, r.results))]]
         IN IF ready = <<>>
            THEN IF remaining # <<>>
                 THEN [kind |-> "raise", run |-> r, error |-> StallError]
                 ELSE [kind |-> "return", run |-> r, error |-> None]
            ELSE IF tks = <<>>
                 THEN ExecuteSteps(r1, agts)
                 ELSE [kind |-> "await", run |-> r1, error |-> None]

\* The ways the workers of the launched steps can end.
Outcomes(tks) ==
    { [i \in 1..Len(tks) |->
          IF f[i] = "returned"
          THEN [state |-> "returned", value |-> WorkerOutput(tks[i])]
          ELSE [state |-> "raised", value |-> "worker error"]] :
      f \in [1..Len(tks) -> {"returned", "raised"}] }

\* workflow_engine.py lines 160-175: gather returns outs, the results are
\* booked and _execute_steps goes on
AfterGather(r, outs, agts) ==
    LET acc == BookResults([status |-> r.status, result |-> r.result,
                            error |-> r.error, results |-> r.results,
                            completed_steps |-> r.completed_steps],
                           r.ready_steps, r.tasks, outs, 1)
    IN ExecuteSteps([r EXCEPT !.status = acc.status, !.result = acc.result,
                              !.error = acc.error, !.results = acc.results,
                              !.completed_steps = acc.completed_steps], agts)

\* task_coordinator.py lines 124-140 and workflow_engine.py lines 59-107:
\* the workflow of the given kind is created and executed up to its first
\* gather
ExecuteTask(kind) ==
    ExecuteSteps(NewRun(CASE kind = "research" -> create_research_workflow
                          [] kind = "analysis" -> create_analysis_workflow
                          [] OTHER -> create_content_workflow),
                 OrchestratorAgents)

\* what execute_workflow returns, lines 88-92
WorkflowResult(r) == [status |-> "completed", results |-> r.results]

\* Variant of line 149 that puts the task at the head of the queue.
EnqueueFront(q, n) == <<n>> \o q

\* line 149
Enqueue(q, n) == Append(q, n)

\* Variant of line 155 that takes the task at the tail of the queue.
PopLast(q) == [task |-> q[Len(q)], rest |-> SubSeq(q, 1, Len(q) - 1)]

\* line 155: task_queue.pop(0)
Pop(q) == [task |-> Head(q), rest |-> Tail(q)]

\* Variant of line 192 that puts the task at the head of the history.
MoveToHistoryFront(h, n) == <<n>> \o h

\* Variant of line 192 that loses the task.
MoveToHistoryLost(h, n) == h

\* line 192
MoveToHistory(h, n) == Append(h, n)

\* Variant of lines 186-187 that loses the status of the failed task.
FailedTaskKept(d, text) == Put(d, "error", text)

\* lines 186-187: the dict of a task whose processing raised
FailedTask(d, text) == Put(Put(d, "status", "failed"), "error", text)

\* Variant of lines 181-182 that marks the task failed when the results of
\* its workflow lack content_step.
CompletedTaskAllSteps(d, res) ==
    IF "content_step" \in DOMAIN res.results
    THEN Put(Put(d, "status", "completed"), "result", res)
    ELSE Put(Put(d, "status", "failed"), "error", "content_step failed")

\* lines 181-182
CompletedTask(d, res) == Put(Put(d, "status", "completed"), "result", res)

\* lines 193-194
Del(a, id) == [k \in DOMAIN a \ {id} |-> a[k]]

\* lines 164-179: the parameter the branch of the task's type reads
RequiredKey(type) == IF type = "research" THEN "query" ELSE "data"
TaskType(d) == IF "type" \in DOMAIN d THEN d.type ELSE "research"
\* str() of the exception lines 164-179 raise before any workflow starts,
\* None when they raise none
DispatchError(d) ==
    IF TaskType(d) \notin {"research", "analysis", "content"}
    THEN "Unknown task type: " \o TaskType(d)
    ELSE IF RequiredKey(TaskType(d)) \notin DOMAIN d
         THEN "'" \o RequiredKey(TaskType(d)) \o "'"
         ELSE None

\* get_queue_status, lines 209-217
get_queue_status(q, a, h, d) ==
    [queue_length |-> Len(q),
     active_tasks |-> Cardinality(DOMAIN a),
     completed_tasks |-> Len(h),
     queue |-> [i \in 1..Len(q) |-> d[q[i]].task_id],
     active |-> DOMAIN a]

\* Variant of lines 196-207 that marks the dict it returns.
get_task_status_marked(id, a, h, d) ==
    IF id \in DOMAIN a
    THEN <<Put(d[a[id]], "status", "read")>>
    ELSE LET found == {i \in 1..Len(h) : d[h[i]].task_id = id}
         IN IF found = {}
            THEN <<>>
            ELSE <<Put(d[h[CHOOSE i \in found : \A j \in found : i <= j]],
                       "status", "read")>>

\* get_task_status, lines 196-207: the active task of that id, else the first
\* task of the history with that id, else None.  The Optional[Dict] it returns
\* is <<d>> for the dict d and <<>> for None.
get_task_status(id, a, h, d) ==
    IF id \in DOMAIN a
    THEN <<d[a[id]]>>
    ELSE LET found == {i \in 1..Len(h) : d[h[i]].task_id = id}
         IN IF found = {}
            THEN <<>>
            ELSE <<d[h[CHOOSE i \in found : \A j \in found : i <= j]]>>

\* add_task_to_queue, lines 142-150 (reached through add_research_task,
\* add_analysis_task, add_content_task or directly).  The clock has moved on
\* since the last reading, or has not.
AddTask(input) ==
    /\ turn = 0
    /\ Len(task_dicts) < MaxTasks
    /\ \E t \in {clock, clock + 1} :
          /\ clock' = t
          /\ task_dicts' = Append(task_dicts,
                Put(Put(input, "task_id", TaskId(t)), "status", "queued"))
    /\ task_queue' = Enqueue(task_queue, Len(task_dicts) + 1)
    /\ UNCHANGED <<active_tasks, task_history, system_status, loops, caller,
                   turn>>
    /\ UNCHANGED <<vars, memVars>>

\* start_system, agent_orchestrator.py lines 40-46
StartSystem ==
    /\ turn = 0
    /\ Len(loops) < MaxStarts
    /\ system_status' = Put(system_status, "status", "running")
    /\ loops' = Append(loops, [pc |-> "idle"])
    /\ UNCHANGED <<task_queue, active_tasks, task_history, task_dicts, caller,
                   turn, clock>>
    /\ UNCHANGED <<vars, memVars>>

\* stop_system, agent_orchestrator.py lines 48-51
StopSystem ==
    /\ turn = 0
    /\ system_status' = Put(system_status, "status", "stopped")
    /\ UNCHANGED <<task_queue, active_tasks, task_history, task_dicts, loops,
                   caller, turn, clock>>
    /\ UNCHANGED <<vars, memVars>>

\* _process_background_tasks, line 55: a drain loop that was just created or
\* has slept tests the system status, and calls process_task_queue or ends
LoopTest(l) ==
    /\ turn = 0
    /\ l \in 1..Len(loops)
    /\ loops[l].pc = "idle"
    /\ IF "status" \in DOMAIN system_status /\ system_status.status = "running"
       THEN /\ loops' = [loops EXCEPT ![l] = [pc |-> "drain"]]
            /\ turn' = l
       ELSE /\ loops' = [loops EXCEPT ![l] = [pc |-> "exited"]]
            /\ turn' = 0
    /\ UNCHANGED <<task_queue, active_tasks, task_history, task_dicts,
                   system_status, caller, clock>>
    /\ UNCHANGED <<vars, memVars>>

\* Variant of lines 154-161 in which the pass ends when the system is not
\* running any more.
DequeueWhileRunning(l) ==
    /\ turn = l
    /\ l \in 1..Len(loops)
    /\ loops[l].pc = "drain"
    /\ IF task_queue = <<>>
          \/ ~("status" \in DOMAIN system_status /\ system_status.status = "running")
       THEN /\ loops' = [loops EXCEPT ![l] = [pc |-> "idle"]]
            /\ turn' = 0
            /\ UNCHANGED <<task_queue, active_tasks, task_dicts>>
       ELSE LET n == Pop(task_queue).task
            IN /\ task_queue' = Pop(task_queue).rest
               /\ active_tasks' = Put(active_tasks, task_dicts[n].task_id, n)
               /\ task_dicts' = [task_dicts EXCEPT ![n] = Put(@, "status", "processing")]
               /\ loops' = [loops EXCEPT ![l] = [pc |-> "dispatch", task |-> n]]
               /\ UNCHANGED turn
    /\ UNCHANGED <<task_history, system_status, caller, clock>>
    /\ UNCHANGED <<vars, memVars>>

\* process_task_queue, lines 154-161: the head of the queue is taken and made
\* active; with an empty queue the call returns and the loop sleeps
\* (agent_orchestrator.py line 58)
Dequeue(l) ==
    /\ turn = l
    /\ l \in 1..Len(loops)
    /\ loops[l].pc = "drain"
    /\ IF task_queue = <<>>
       THEN /\ loops' = [loops EXCEPT ![l] = [pc |-> "idle"]]
            /\ turn' = 0
            /\ UNCHANGED <<task_queue, active_tasks, task_dicts>>
       ELSE LET n == Pop(task_queue).task
            IN /\ task_queue' = Pop(task_queue).rest
               /\ active_tasks' = Put(active_tasks, task_dicts[n].task_id, n)
               /\ task_dicts' = [task_dicts EXCEPT ![n] = Put(@, "status", "processing")]
               /\ loops' = [loops EXCEPT ![l] = [pc |-> "dispatch", task |-> n]]
               /\ UNCHANGED turn
    /\ UNCHANGED <<task_history, system_status, caller, clock>>
    /\ UNCHANGED <<vars, memVars>>

\* process_task_queue, lines 181-188, for the loop l whose workflow ended as o
\* (or is suspended in a gather); e is the exception the except clause caught
Settle(l, n, o) ==
    IF o.kind = "await"
    THEN /\ loops' = [loops EXCEPT ![l] = [pc |-> "run", task |-> n, run |-> o.run]]
         /\ turn' = 0
         /\ UNCHANGED task_dicts
    ELSE /\ loops' = [loops EXCEPT ![l] =
                [pc |-> "finally", task |-> n, raised |-> (o.kind = "raise"),
                 e |-> o.error]]
         /\ turn' = l
         /\ task_dicts' = [task_dicts EXCEPT ![n] =
                IF o.kind = "return"
                THEN CompletedTask(@, WorkflowResult(o.run))
                ELSE FailedTask(@, o.error)]

\* process_task_queue, lines 164-188: the task is dispatched on its type; the
\* workflow runs to its first gather, or the exception is caught
Dispatch(l) ==
    /\ turn = l
    /\ l \in 1..Len(loops)
    /\ loops[l].pc = "dispatch"
    /\ LET n == loops[l].task
           d == task_dicts[n]
       IN IF DispatchError(d) # None
          THEN Settle(l, n, [kind |-> "raise", error |-> DispatchError(d)])
          ELSE Settle(l, n, ExecuteTask(TaskType(d)))
    /\ UNCHANGED <<task_queue, active_tasks, task_history, system_status,
                   caller, clock>>
    /\ UNCHANGED <<vars, memVars>>

\* The workers of the steps loop l awaits end, and the workflow goes on to
\* its next gather or ends (lines 167-188).
LoopWorkersEnd(l) ==
    /\ turn = 0
    /\ l \in 1..Len(loops)
    /\ loops[l].pc = "run"
    /\ \E outs \in Outcomes(loops[l].run.tasks) :
          Settle(l, loops[l].task, AfterGather(loops[l].run, outs, OrchestratorAgents))
    /\ UNCHANGED <<task_queue, active_tasks, task_history, system_status,
                   caller, clock>>
    /\ UNCHANGED <<vars, memVars>>

\* process_task_queue, lines 190-194, and back to the test of line 154
Finally(l) ==
    /\ turn = l
    /\ l \in 1..Len(loops)
    /\ loops[l].pc = "finally"
    /\ LET n == loops[l].task
       IN /\ task_history' = MoveToHistory(task_history, n)
          /\ active_tasks' = Del(active_tasks, task_dicts[n].task_id)
    /\ loops' = [loops EXCEPT ![l] = [pc |-> "drain"]]
    /\ UNCHANGED <<task_queue, task_dicts, system_status, caller, turn, clock>>
    /\ UNCHANGED <<vars, memVars>>

\* what research, analyze_data and generate_content do when their workflow
\* ended as o, or is suspended in a gather: agent_orchestrator.py lines
\* 70-85, 94-107, 116-129.  They return a dict and catch every exception.
Reply(entry, o) ==
    /\ caller' = IF o.kind = "await"
                 THEN [pc |-> "run", entry |-> entry, run |-> o.run]
                 ELSE [pc |-> "idle"]
    /\ UNCHANGED system_status

\* research, analyze_data, generate_content, agent_orchestrator.py lines
\* 63-129: the caller awaits the workflow of the entry point
Call(entry) ==
    /\ turn = 0
    /\ caller.pc = "idle"
    /\ Reply(entry, ExecuteTask(CASE entry = "research" -> "research"
                                  [] entry = "analyze_data" -> "analysis"
                                  [] OTHER -> "content"))
    /\ UNCHANGED <<task_queue, active_tasks, task_history, task_dicts, loops,
                   turn, clock>>
    /\ UNCHANGED <<vars, memVars>>

\* The workers of the steps the caller awaits end.
CallerWorkersEnd ==
    /\ turn = 0
    /\ caller.pc = "run"
    /\ \E outs \in Outcomes(caller.run.tasks) :
          Reply(caller.entry, AfterGather(caller.run, outs, OrchestratorAgents))
    /\ UNCHANGED <<task_queue, active_tasks, task_history, task_dicts, loops,
                   turn, clock>>
    /\ UNCHANGED <<vars, memVars>>

\* The steps of the drain loops.
LoopStep ==
    \/ \E l \in 1..MaxStarts : LoopTest(l)
    \/ \E l \in 1..MaxStarts : Dequeue(l)
    \/ \E l \in 1..MaxStarts : Dispatch(l)
    \/ \E l \in 1..MaxStarts : LoopWorkersEnd(l)
    \/ \E l \in 1..MaxStarts : Finally(l)

\* The backlog: submissions, start_system and stop_system, and the drain loops.
DrainNext ==
    \/ \E input \in TaskInputs : AddTask(input)
    \/ StartSystem
    \/ StopSystem
    \/ LoopStep

DrainSpec == Init /\ [][DrainNext]_allVars

\* The steps of the drain loop l.
LoopOf(l) ==
    LoopTest(l) \/ Dequeue(l) \/ Dispatch(l) \/ LoopWorkersEnd(l) \/ Finally(l)

\* The event loop runs its ready coroutines in turn, so a drain loop that is
\* ready again and again (its sleep over, or the workers it awaits ended)
\* gets to run, whatever the other drain loops do in between.
FairDrainSpec == DrainSpec /\ \A l \in 1..MaxStarts : SF_allVars(LoopOf(l))

\* The backlog together with the synchronous entry points.
CoordNext ==
    \/ \E input \in TaskInputs \cup OtherTaskInputs : AddTask(input)
    \/ StartSystem
    \/ StopSystem
    \/ LoopStep
    \/ \E entry \in EntryPoints : Call(entry)
    \/ CallerWorkersEnd

CoordSpec == Init /\ [][CoordNext]_allVars

\* The task ids a caller can ask for.
TaskIds == {TaskId(t) : t \in 0..MaxTasks}

\* get_task_status, task_coordinator.py lines 196-207, called between two
\* stretches of the drain loops
GetTaskStatus(id) ==
    /\ turn = 0
    /\ reply' = [op |-> "get_task_status", task_id |-> id,
                 returned |-> get_task_status(id, active_tasks, task_history,
                                              task_dicts)]
    /\ UNCHANGED <<stores, knowledge_graph, relationships, knowledge_sources,
                   fact_checks, validations, snapshot>>
    /\ UNCHANGED <<vars, coordVars, tierVars>>

\* get_queue_status, task_coordinator.py lines 209-217
GetQueueStatus ==
    /\ turn = 0
    /\ reply' = [op |-> "get_queue_status",
                 returned |-> get_queue_status(task_queue, active_tasks,
                                               task_history, task_dicts)]
    /\ UNCHANGED <<stores, knowledge_graph, relationships, knowledge_sources,
                   fact_checks, validations, snapshot>>
    /\ UNCHANGED <<vars, coordVars, tierVars>>

\* Content tasks and tasks of an unknown type are submitted to a system that
\* is started and not stopped, and the status queries are called in between.
QueryNext ==
    \/ \E input \in {[type |-> "content", data |-> "d"], [type |-> "translate"]} :
          AddTask(input)
    \/ StartSystem
    \/ LoopStep
    \/ \E id \in TaskIds : GetTaskStatus(id)
    \/ GetQueueStatus

QuerySpec == Init /\ [][QueryNext]_everyVars

\* -----------------------------------------------------------------------
\* The memory stores (src/memory)
\*
\* Every tier and the repository keep the data and metadata dicts of
\* BaseMemory; the repository adds the knowledge graph and the
\* relationships, the verification tier its fact checks and validations.
\* A dict that is only stored and handed back is named by its text; the
\* timestamps, which no decision reads, are left out.
\* -----------------------------------------------------------------------
Keys == {"k"}
Values == {"v1", "v2"}
\* The metadata argument of store: absent, empty, or one of two dicts.
Metadatas == {None, EmptyDict, "{'source': 'a'}", "{'source': 'b'}"}

\* store, the same five lines in every store: shared_knowledge.py lines
\* 28-33, analysis_memory.py lines 17-22
store(s, key, value, metadata) ==
    [data |-> Put(s.data, key, value),
     metadata |-> IF Truthy(metadata) THEN Put(s.metadata, key, metadata)
                  ELSE s.metadata]

\* retrieve: self.data.get(key)
retrieve(s, key) == IF key \in DOMAIN s.data THEN s.data[key] ELSE None

\* self.metadata.get(key)
MetadataOf(s, key) == IF key \in DOMAIN s.metadata THEN s.metadata[key] ELSE None

Store(t, key, value, metadata) ==
    /\ stores' = [stores EXCEPT ![t] = store(@, key, value, metadata)]
    /\ UNCHANGED <<reply, knowledge_graph, relationships, knowledge_sources,
                   fact_checks, validations, snapshot>>
    /\ UNCHANGED <<vars, coordVars, tierVars>>

Retrieve(t, key) ==
    /\ reply' = [op |-> "retrieve", returned |-> retrieve(stores[t], key)]
    /\ UNCHANGED <<stores, knowledge_graph, relationships, knowledge_sources,
                   fact_checks, validations, snapshot>>
    /\ UNCHANGED <<vars, coordVars, tierVars>>

\* store and retrieve on the four tiers and on the repository
StoreNext ==
    \/ \E t \in Stores, key \in Keys, value \in Values, metadata \in Metadatas :
          Store(t, key, value, metadata)
    \/ \E t \in Stores, key \in Keys : Retrieve(t, key)

StoreSpec == Init /\ [][StoreNext]_everyVars

\* The knowledge graph of the repository.
NodeIds == {"a", "b"}
Repository == "SharedKnowledgeRepository"
\* node_data dicts: {"refs": [1, 2]} and {"refs": (1, 2)}
NodeDatas ==
    { [refs |-> [py |-> "list", items |-> <<1, 2>>]],
      [refs |-> [py |-> "tuple", items |-> <<1, 2>>]] }

\* add_knowledge_node, lines 38-43: the node dict put at node_id
add_knowledge_node(kg, id, node_data, source) ==
    Put(kg, id, [data |-> node_data, source |-> source, access_count |-> 0])

\* add_knowledge_node, lines 35-49 (source keeps its default)
AddKnowledgeNode(id, node_data) ==
    /\ knowledge_graph' = add_knowledge_node(knowledge_graph, id, node_data, "unknown")
    /\ knowledge_sources' = Put(knowledge_sources, id, "unknown")
    /\ stores' = [stores EXCEPT ![Repository].metadata =
                     Put(@, "node_" \o id, "{'source': 'unknown', 'data_type': 'dict'}")]
    /\ UNCHANGED <<reply, relationships, fact_checks, validations, snapshot>>
    /\ UNCHANGED <<vars, coordVars, tierVars>>

\* add_relationship, lines 51-62 (relationship_type keeps its default)
AddRelationship(from_node, to_node) ==
    /\ LET old == IF from_node \in DOMAIN relationships
                  THEN relationships[from_node] ELSE <<>>
       IN /\ Len(old) < MaxRelations
          /\ relationships' = Put(relationships, from_node,
                                  Append(old, [target |-> to_node, type |-> "related"]))
    /\ UNCHANGED <<reply, stores, knowledge_graph, knowledge_sources, fact_checks,
                   validations, snapshot>>
    /\ UNCHANGED <<vars, coordVars, tierVars>>

\* get_knowledge_node, lines 68-74: the node is counted and handed out, None
\* (<<>>) for an id that is not in the graph
GetKnowledgeNode(id) ==
    /\ IF id \in DOMAIN knowledge_graph
       THEN /\ knowledge_graph[id].access_count < MaxReads
            /\ knowledge_graph' = [knowledge_graph EXCEPT ![id].access_count = @ + 1]
            /\ reply' = [op |-> "get_knowledge_node", returned |-> <<knowledge_graph'[id]>>]
       ELSE /\ reply' = [op |-> "get_knowledge_node", returned |-> <<>>]
            /\ UNCHANGED knowledge_graph
    /\ UNCHANGED <<stores, relationships, knowledge_sources, fact_checks,
                   validations, snapshot>>
    /\ UNCHANGED <<vars, coordVars, tierVars>>

\* json.dumps of a list or of a tuple is an array, json.loads of an array is a
\* list; a dict with string keys is an object and comes back as that dict.
JsonOfValue(x) == [json |-> "array", items |-> x.items]
ValueOfJson(j) == [py |-> "list", items |-> j.items]
JsonOfNode(n) ==
    [data |-> [k \in DOMAIN n.data |-> JsonOfValue(n.data[k])],
     source |-> n.source, access_count |-> n.access_count]
NodeOfJson(j) ==
    [data |-> [k \in DOMAIN j.data |-> ValueOfJson(j.data[k])],
     source |-> j.source, access_count |-> j.access_count]

\* export_knowledge, lines 121-132: the members of the exported object that
\* import_knowledge reads
export_knowledge(kg, rel) ==
    [knowledge_graph |-> [id \in DOMAIN kg |-> JsonOfNode(kg[id])],
     relationships |-> [f \in DOMAIN rel |-> [json |-> "array", items |-> rel[f]]]]

\* dict.update
Update(d, other) ==
    [k \in DOMAIN d \cup DOMAIN other |-> IF k \in DOMAIN other THEN other[k] ELSE d[k]]

\* import_knowledge, lines 136-144
import_knowledge(kg, rel, data) ==
    [knowledge_graph |->
        Update(kg, [id \in DOMAIN data.knowledge_graph |->
                       NodeOfJson(data.knowledge_graph[id])]),
     relationships |->
        Update(rel, [f \in DOMAIN data.relationships |-> data.relationships[f].items])]

ExportKnowledge ==
    /\ snapshot' = <<export_knowledge(knowledge_graph, relationships)>>
    /\ UNCHANGED <<reply, stores, knowledge_graph, relationships, knowledge_sources,
                   fact_checks, validations>>
    /\ UNCHANGED <<vars, coordVars, tierVars>>

\* import_knowledge of the string an earlier export_knowledge returned
ImportKnowledge ==
    /\ snapshot # <<>>
    /\ LET after == import_knowledge(knowledge_graph, relationships, snapshot[1])
       IN /\ knowledge_graph' = after.knowledge_graph
          /\ relationships' = after.relationships
    /\ UNCHANGED <<reply, stores, knowledge_sources, fact_checks, validations,
                   snapshot>>
    /\ UNCHANGED <<vars, coordVars, tierVars>>

\* import_knowledge(export_knowledge()) on the repository itself
ImportExport ==
    /\ LET after == import_knowledge(knowledge_graph, relationships,
                                     export_knowledge(knowledge_graph, relationships))
       IN /\ knowledge_graph' = after.knowledge_graph
          /\ relationships' = after.relationships
    /\ UNCHANGED <<reply, stores, knowledge_sources, fact_checks, validations,
                   snapshot>>
    /\ UNCHANGED <<vars, coordVars, tierVars>>

\* import_knowledge(export_knowledge()) into a repository that was just
\* constructed: reply is the graph and the relationships of that repository
ImportIntoNew ==
    /\ LET after == import_knowledge(<<>>, <<>>,
                                     export_knowledge(knowledge_graph, relationships))
       IN reply' = [op |-> "import_knowledge",
                    knowledge_graph |-> after.knowledge_graph,
                    relationships |-> after.relationships]
    /\ UNCHANGED <<stores, knowledge_graph, relationships, knowledge_sources,
                   fact_checks, validations, snapshot>>
    /\ UNCHANGED <<vars, coordVars, tierVars>>

\* search of the repository, lines 80-101, in a repository whose tiers hold
\* no search entry: the ids of the nodes with the query in their id
Search(query) ==
    /\ reply' = [op |-> "search",
                 returned |-> {id \in DOMAIN knowledge_graph : id = query}]
    /\ UNCHANGED <<stores, knowledge_graph, relationships, knowledge_sources,
                   fact_checks, validations, snapshot>>
    /\ UNCHANGED <<vars, coordVars, tierVars>>

\* The operations on the repository and its knowledge graph.
KnowledgeNext ==
    \/ \E id \in NodeIds, node_data \in NodeDatas : AddKnowledgeNode(id, node_data)
    \/ \E id \in NodeIds : GetKnowledgeNode(id)
    \/ ExportKnowledge
    \/ ImportKnowledge
    \/ \E query \in NodeIds : Search(query)
    \/ Store(Repository, "k", "v1", "{'source': 'a'}")

KnowledgeSpec == Init /\ [][KnowledgeNext]_everyVars

\* The knowledge graph with its relationships and the round trip.
RoundTripNext ==
    \/ \E id \in NodeIds, node_data \in NodeDatas : AddKnowledgeNode(id, node_data)
    \/ \E from_node \in NodeIds, to_node \in NodeIds : AddRelationship(from_node, to_node)
    \/ \E id \in NodeIds : GetKnowledgeNode(id)
    \/ ImportExport
    \/ ImportIntoNew

RoundTripSpec == Init /\ [][RoundTripNext]_everyVars

\* The verification tier (src/memory/verification_memory.py).
ClaimIds == {"c1", "c2", "c3"}
DataIds == {"d1"}
\* The result dicts of a fact check: verified, refuted, or without a status.
FactResults == {[status |-> "verified"], [status |-> "refuted"], [confidence |-> 1]}
\* The validation results: valid, not valid, or without the is_valid key.
ValidationResults == {[is_valid |-> TRUE], [is_valid |-> FALSE], [type |-> "t"]}

\* dict.get(key, default)
Get(d, key, default) == IF key \in DOMAIN d THEN d[key] ELSE default

\* store_fact_check, lines 24-35 (the claim text is not read by the summary)
StoreFactCheck(claim_id, res) ==
    /\ fact_checks' = Put(fact_checks, claim_id, [claim |-> "claim", result |-> res])
    /\ stores' = [stores EXCEPT !["VerificationMemory"].metadata =
                     Put(@, "fact_check_" \o claim_id,
                         [verification_status |-> Get(res, "status", "unknown"),
                          confidence |-> Get(res, "confidence", 0),
                          sources_count |-> 0])]
    /\ UNCHANGED <<reply, knowledge_graph, relationships, knowledge_sources,
                   validations, snapshot>>
    /\ UNCHANGED <<vars, coordVars, tierVars>>

\* store_validation, lines 37-44
StoreValidation(data_id, validation_result) ==
    /\ validations' = Put(validations, data_id, validation_result)
    /\ stores' = [stores EXCEPT !["VerificationMemory"].metadata =
                     Put(@, "validation_" \o data_id,
                         [is_valid |-> Get(validation_result, "is_valid", FALSE),
                          validation_type |-> Get(validation_result, "type", "unknown")])]
    /\ UNCHANGED <<reply, knowledge_graph, relationships, knowledge_sources,
                   fact_checks, snapshot>>
    /\ UNCHANGED <<vars, coordVars, tierVars>>

RECURSIVE Gcd(_, _)
Gcd(a, b) == IF b = 0 THEN a ELSE Gcd(b, a % b)

\* a / b as a fraction in lowest terms; a denominator of 0 stands for the
\* ZeroDivisionError of a division by zero
Quotient(a, b) ==
    IF b = 0 THEN [num |-> a, den |-> 0]
    ELSE [num |-> a \div Gcd(a, b), den |-> b \div Gcd(a, b)]

\* Variant of lines 111-112 that divides without the test.
TrueDivUnguarded(a, b) == Quotient(a, b)

\* lines 111-112: a / b if b > 0 else 0
TrueDiv(a, b) == IF b > 0 THEN Quotient(a, b) ELSE Quotient(0, 1)

\* get_verification_summary, lines 96-113
get_verification_summary(fc, vs) ==
    LET total_fact_checks == Cardinality(DOMAIN fc)
        total_validations == Cardinality(DOMAIN vs)
        verified_claims == Cardinality({c \in DOMAIN fc :
                              Get(fc[c].result, "status", None) = "verified"})
        valid_data == Cardinality({d \in DOMAIN vs : Get(vs[d], "is_valid", FALSE)})
    IN [total_fact_checks |-> total_fact_checks,
        verified_claims |-> verified_claims,
        total_validations |-> total_validations,
        valid_data |-> valid_data,
        verification_rate |-> TrueDiv(verified_claims, total_fact_checks),
        validation_rate |-> TrueDiv(valid_data, total_validations)]

\* One of the two divisions raised.
Raises(summary) == summary.verification_rate.den = 0 \/ summary.validation_rate.den = 0

GetVerificationSummary ==
    /\ LET summary == get_verification_summary(fact_checks, validations)
       IN reply' = IF Raises(summary)
                   THEN [op |-> "get_verification_summary", raised |-> "ZeroDivisionError"]
                   ELSE [op |-> "get_verification_summary", returned |-> summary]
    /\ UNCHANGED <<stores, knowledge_graph, relationships, knowledge_sources,
                   fact_checks, validations, snapshot>>
    /\ UNCHANGED <<vars, coordVars, tierVars>>

VerificationNext ==
    \/ \E claim_id \in ClaimIds, res \in FactResults : StoreFactCheck(claim_id, res)
    \/ \E data_id \in DataIds, validation_result \in ValidationResults :
          StoreValidation(data_id, validation_result)
    \/ GetVerificationSummary

VerificationSpec == Init /\ [][VerificationNext]_everyVars

TypeOK ==
    /\ pc \in {"idle", "loop", "gather"}
    /\ \A s \in DOMAIN status : status[s] \in TaskStatus

\* -----------------------------------------------------------------------
\* Properties
\* -----------------------------------------------------------------------
\* s reaches t along at most n dependency edges between steps of the workflow.
RECURSIVE Reaches(_, _, _)
Reaches(s, t, n) ==
    /\ n > 0
    /\ \E u \in DepSet(s) \cap StepSet : u = t \/ Reaches(u, t, n - 1)

OnCycle(s) == Reaches(s, s, Len(steps))
HasDangling(s) == \E d \in DepSet(s) : d \notin StepSet
Terminal == {COMPLETED, FAILED, CANCELLED}
Created == wid \in DOMAIN workflows
\* An execute_workflow call has ended.
Ended == pc = "idle" /\ workflow_history # <<>>
LastRecord == workflow_history[Len(workflow_history)]
EndedFailed ==
    /\ last_return.kind = "raise"
    /\ LastRecord.status = "failed"
EndedCompleted ==
    /\ last_return.kind = "return"
    /\ last_return.status = "completed"
    /\ LastRecord.status = "completed"

\* C1: the first execution of a fresh workflow that is acyclic, has no
\* dependency on a name that is not a step, has every agent_name in the
\* agents table and whose worker calls all succeed returns status
\* "completed" with exactly one result per step.
C1_Pre ==
    /\ workflow_history = <<>>
    /\ \A s \in StepSet :
        /\ ~OnCycle(s)
        /\ ~HasDangling(s)
        /\ agent_name(s) \in agents
        /\ worker_calls[s].raised = 0
C1_AcyclicCompletes ==
    [][(pc = "loop" /\ pc' = "idle" /\ C1_Pre) =>
          /\ last_return'.kind = "return"
          /\ last_return'.status = "completed"
          /\ DOMAIN last_return'.results = StepSet
          /\ active_workflows'[wid].status = "completed"
          /\ workflow_history'[1].status = "completed"]_vars
\* A first execution of three steps, one of them with two dependencies, has
\* ended with a result of its own for every step.
C1_Witness ==
    /\ Ended
    /\ Len(workflow_history) = 1
    /\ Len(steps) = 3
    /\ \E s \in StepSet : Len(dependencies(s)) = 2
    /\ \A s \in StepSet : worker_calls[s].calls = 1 /\ worker_calls[s].raised = 0
    /\ EndedCompleted
    /\ DOMAIN last_return.results = StepSet

\* C2: a step enters IN_PROGRESS, and its worker is called, only in a state
\* where every name in its dependencies is a step in state COMPLETED.
C2_LaunchAfterDependencies ==
    [][\A s \in DOMAIN status :
          (\/ status[s] # IN_PROGRESS /\ status'[s] = IN_PROGRESS
           \/ worker_calls'[s].calls > worker_calls[s].calls) =>
              \A d \in DepSet(s) :
                  /\ d \in StepSet
                  /\ status[d] = COMPLETED
                  /\ status'[d] = COMPLETED]_vars
\* A step with two dependencies is running.
C2_Witness ==
    /\ Created
    /\ \E s \in StepSet :
        /\ status[s] = IN_PROGRESS
        /\ Len(dependencies(s)) = 2
        /\ \A d \in DepSet(s) : d \in StepSet /\ status[d] = COMPLETED

\* C3: a workflow of a single step whose worker raises ends Failed (status
\* "failed" in the record and the history, the error raised to the caller)
\* and the step's error is non-empty.
C3_SingleFailingStepFails ==
    (/\ Created
     /\ Len(steps) = 1
     /\ Ended
     /\ worker_calls[steps[1]].raised > 0) =>
        /\ EndedFailed
        /\ error[steps[1]] \notin {None, ""}

\* C4: while a dependency of a step is FAILED the step is PENDING and its
\* worker has not been called, and an execution that ends with a FAILED
\* dependency of some step ends Failed with the stall error.
C4_FailedDependencyBlocks ==
    Created =>
        \A s \in StepSet : \A d \in DepSet(s) \cap StepSet :
            status[d] = FAILED =>
                /\ status[s] = PENDING
                /\ worker_calls[s].calls = 0
                /\ Ended => EndedFailed /\ last_return.error = StallError
\* An execution has ended with a step whose worker raised and a step
\* depending on it.
C4_Witness ==
    /\ Created
    /\ Ended
    /\ \E s \in StepSet : \E d \in DepSet(s) \cap StepSet :
        /\ status[d] = FAILED
        /\ worker_calls[d].raised = 1
        /\ status[s] = PENDING

\* C5: when a round finds no ready step while some step is PENDING or
\* IN_PROGRESS, the execution ends there and ends Failed, never Completed.
C5_StallNeverCompletes ==
    [][(/\ pc = "loop"
        /\ ReadySteps(status, completed_steps) = <<>>
        /\ \E s \in StepSet : status[s] \in {PENDING, IN_PROGRESS}) =>
            /\ pc' = "idle"
            /\ last_return'.kind = "raise"
            /\ active_workflows'[wid].status = "failed"]_vars

\* C6: a step on a dependency cycle and a step with a dependency that names
\* no step are never launched, and every execution of a workflow with such
\* a step ends with status failed.
C6_CycleOrDanglingFails ==
    Created =>
        \A s \in StepSet :
            (OnCycle(s) \/ HasDangling(s)) =>
                /\ status[s] = PENDING
                /\ worker_calls[s].calls = 0
                /\ Ended => EndedFailed
\* An execution of A -> B -> C -> A has ended, and so has one of a workflow
\* with a dangling dependency in which another step ran.
C6_WitnessCycle ==
    /\ Created
    /\ Ended
    /\ Len(steps) = 3
    /\ \A s \in StepSet : OnCycle(s) /\ Len(dependencies(s)) = 1
C6_WitnessDangling ==
    /\ Created
    /\ Ended
    /\ \E s \in StepSet : HasDangling(s) /\ ~OnCycle(s)
    /\ \E s \in StepSet : status[s] = COMPLETED
C6_Witness == C6_WitnessCycle \/ C6_WitnessDangling

\* C7: every execute_workflow call ends, given that the event loop keeps
\* running it and every worker call returns or raises.
C7_Terminates == (pc # "idle") ~> (pc = "idle")
\* An execution has ended after a round in which a worker raised, a worker
\* returned and an agent was not found.
C7_Witness ==
    /\ Created
    /\ Ended
    /\ \E s \in StepSet : worker_calls[s].raised = 1
    /\ \E s \in StepSet : status[s] = COMPLETED
    /\ \E s \in StepSet : worker_calls[s].calls = 0 /\ status[s] = FAILED

\* C8: a step whose status is COMPLETED, FAILED or CANCELLED keeps it.
C8_TerminalStatusIsFinal ==
    [][\A s \in DOMAIN status :
          status[s] \in Terminal => status'[s] = status[s]]_vars

\* C9: a ready step whose agent_name is not in the agents table becomes
\* FAILED with the error 'Agent <name> not found' without a worker call, and
\* from then on keeps that status and that error and has no worker call.
NotFoundFailed(st, er, wc, s) ==
    /\ st[s] = FAILED
    /\ er[s] = NotFoundError(agent_name(s))
    /\ wc[s].calls = 0
C9_NotFoundStaysFailed ==
    [][\A s \in DOMAIN status :
          /\ (/\ pc = "loop" /\ pc' # "idle"
              /\ \E i \in 1..Len(ready_steps') : ready_steps'[i] = s
              /\ agent_name(s) \notin agents)
                => NotFoundFailed(status', error', worker_calls', s)
          /\ NotFoundFailed(status, error, worker_calls, s)
                => NotFoundFailed(status', error', worker_calls', s)]_vars

\* C10: every entry of the results map, during the execution and in what is
\* returned, is keyed by a step that is COMPLETED, whose worker was called,
\* and holds the value that step's own worker returned, which is also the
\* step's recorded result.
OwnResults(res) ==
    \A s \in DOMAIN res :
        /\ worker_calls[s].calls > 0
        /\ res[s] = worker_calls[s].returned
        /\ status[s] = COMPLETED
        /\ result[s] = res[s]
C10_ResultsAreOwn ==
    /\ OwnResults(results)
    /\ (Ended /\ last_return.kind = "return") => OwnResults(last_return.results)

\* C11: a step launched with its data unset and at least one dependency is
\* passed, as data, the result of its last-listed dependency, whatever that
\* result is; a step whose data is set is passed its own data.
C11_LastDependencyData ==
    [][\A s \in DOMAIN status :
          worker_calls'[s].calls > worker_calls[s].calls =>
              /\ (task(s).data = None /\ dependencies(s) # <<>>) =>
                    worker_calls'[s].data =
                        result[dependencies(s)[Len(dependencies(s))]]
              /\ task(s).data # None => worker_calls'[s].data = task(s).data]_vars

\* C12: when several steps are launched in one round and the worker of one of
\* them raises, each sibling whose worker returned ends COMPLETED with its own
\* result recorded, and each step whose worker raised ends FAILED with the
\* error text of its own worker.
C12_SiblingsKeepOwnOutcome ==
    [][(/\ pc = "gather" /\ pc' = "loop"
        /\ Len(tasks) >= 2
        /\ \E j \in 1..Len(coros) : coros[j].state = "raised")
       => \A i \in 1..Len(tasks) :
            /\ coros[i].state = "returned" =>
                  /\ status'[tasks[i]] = COMPLETED
                  /\ result'[tasks[i]] = coros[i].value
                  /\ results'[tasks[i]] = coros[i].value
            /\ coros[i].state = "raised" =>
                  /\ status'[tasks[i]] = FAILED
                  /\ error'[tasks[i]] = coros[i].value]_vars

\* C13: whenever the status record of the workflow or an entry of the history
\* says completed, every step of the workflow is COMPLETED, FAILED or
\* CANCELLED: none is PENDING or IN_PROGRESS.
C13_CompletedMeansAllTerminal ==
    (\/ (wid \in DOMAIN active_workflows /\ active_workflows[wid].status = "completed")
     \/ \E k \in 1..Len(workflow_history) : workflow_history[k].status = "completed")
    => \A s \in DOMAIN status : status[s] \in Terminal

\* Property helpers of the coordinator
Processing == {n \in DOMAIN task_dicts : task_dicts[n].status = "processing"}
InQueue(n) == \E i \in 1..Len(task_queue) : task_queue[i] = n
InActive(n) == \E id \in DOMAIN active_tasks : active_tasks[id] = n
InHistory(n) == \E i \in 1..Len(task_history) : task_history[i] = n
\* The coroutines that have started a workflow that has not finished.
Executing == {l \in 1..Len(loops) : loops[l].pc = "run"}
                 \cup (IF caller.pc = "run" THEN {0} ELSE {})
\* A call of add_task_to_queue.
Submission == Len(task_dicts') = Len(task_dicts) + 1

\* C14: queued tasks start processing in the order add_task_to_queue accepted
\* them: a task leaves the status queued only for processing and only when
\* no task submitted before it is still queued; and a submission leaves
\* every processing task, and the drain loop that processes it, as it was.
C14_FifoStart ==
    [][/\ \A n \in DOMAIN task_dicts :
             (task_dicts[n].status = "queued" /\ task_dicts'[n].status # "queued")
                => /\ task_dicts'[n].status = "processing"
                   /\ \A m \in 1..(n - 1) : task_dicts[m].status # "queued"
       /\ Submission =>
             /\ loops' = loops
             /\ \A n \in Processing : /\ task_dicts'[n] = task_dicts[n]
                                      /\ InActive(n) => InActive(n)']_allVars

\* The first task is in the history and the second, submitted after it, is
\* being processed.
C14_Witness ==
    /\ task_history = <<1>>
    /\ Len(task_dicts) = 2
    /\ task_dicts[2].status = "processing"

\* C15: at every moment at most one queued task is in status processing, and
\* active_tasks holds at most one entry.
C15_AtMostOneProcessing ==
    /\ Cardinality(Processing) <= 1
    /\ Cardinality(DOMAIN active_tasks) <= 1

\* C16: at most one workflow has been started and has not yet finished,
\* system-wide.
C16_AtMostOneWorkflow == Cardinality(Executing) <= 1

\* C17: the status of a queued task only moves queued -> processing ->
\* completed or failed; a task in task_history has a terminal status and does
\* not change any more, and task_history only grows at its tail, without
\* duplicates.
C17_StatusAndHistory ==
    [][/\ \A n \in DOMAIN task_dicts :
             \/ task_dicts'[n].status = task_dicts[n].status
             \/ <<task_dicts[n].status, task_dicts'[n].status>> \in
                    { <<"queued", "processing">>, <<"processing", "completed">>,
                      <<"processing", "failed">> }
       /\ \A n \in DOMAIN task_dicts' \ DOMAIN task_dicts :
             task_dicts'[n].status = "queued"
       /\ Len(task_history') >= Len(task_history)
       /\ SubSeq(task_history', 1, Len(task_history)) = task_history
       /\ \A i, j \in 1..Len(task_history') :
             task_history'[i] = task_history'[j] => i = j
       /\ \A i \in 1..Len(task_history') :
             task_dicts'[task_history'[i]].status \in {"completed", "failed"}
       /\ \A i \in 1..Len(task_history) :
             task_dicts'[task_history[i]] = task_dicts[task_history[i]]]_allVars

\* Two tasks went through the three statuses: the history holds a completed
\* task and then a failed one.
C17_Witness ==
    /\ task_history = <<1, 2>>
    /\ task_dicts[1].status = "completed"
    /\ task_dicts[2].status = "failed"

\* C18: add_task_to_queue appends the new task, with status queued and the id
\* it returns, to the tail of task_queue; active_tasks, task_history, the
\* other tasks, the coroutines and the workflow engine's state are unchanged;
\* and after the second of two submissions into an idle empty coordinator
\* get_queue_status reports queue_length 2.
C18_SubmissionOnlyAppends ==
    [][Submission =>
         /\ task_queue' = Append(task_queue, Len(task_dicts'))
         /\ task_dicts'[Len(task_dicts')].status = "queued"
         /\ task_dicts'[Len(task_dicts')].task_id = TaskId(clock')
         /\ \A n \in DOMAIN task_dicts : task_dicts'[n] = task_dicts[n]
         /\ UNCHANGED <<active_tasks, task_history, loops, caller, turn, system_status>>
         /\ UNCHANGED vars
         /\ (task_queue = <<1>> /\ Len(task_dicts) = 1 /\ DOMAIN active_tasks = {}
                /\ task_history = <<>>)
               => get_queue_status(task_queue', active_tasks', task_history',
                                   task_dicts').queue_length = 2]_allVars

\* Two tasks were submitted into an idle empty coordinator while a third
\* party, a drain loop, was already started.
C18_Witness ==
    /\ task_queue = <<1, 2>>
    /\ DOMAIN active_tasks = {}
    /\ task_history = <<>>
    /\ Len(loops) > 0

\* C19: whenever no coroutine is between two awaits, each submitted task is
\* in exactly one of task_queue, active_tasks and task_history, the three
\* counts of get_queue_status add up to the number of submitted tasks, and
\* completed_tasks is at most the number of dequeued tasks.
C19_TasksAccountedFor ==
    turn = 0 =>
        LET qs == get_queue_status(task_queue, active_tasks, task_history, task_dicts)
        IN /\ \A n \in DOMAIN task_dicts :
                 Cardinality({k \in {"queue", "active", "history"} :
                     \/ k = "queue" /\ InQueue(n)
                     \/ k = "active" /\ InActive(n)
                     \/ k = "history" /\ InHistory(n)}) = 1
           /\ qs.queue_length + qs.active_tasks + qs.completed_tasks = Len(task_dicts)
           /\ qs.completed_tasks <= Len(task_dicts) - Len(task_queue)

\* C20: an exception raised while a queued task is processed (failed
\* workflow, unknown task type, missing parameter) is caught: the task is
\* recorded failed with the error text and moved to the history, the loop is
\* then back at the test of line 154 and takes the next queued task whatever
\* the system status is, and a drain loop only ends at the test of line 55
\* when the system is not running.
C20_ExceptionCaught ==
    [][\A l \in 1..Len(loops') :
         /\ (loops'[l].pc = "finally" /\ loops'[l].raised) =>
               /\ loops'[l].e \in {StallError, "Unknown task type: translate", "'query'"}
               /\ task_dicts'[loops'[l].task].status = "failed"
               /\ task_dicts'[loops'[l].task].error = loops'[l].e
         /\ (l <= Len(loops) /\ loops[l].pc = "dispatch"
               /\ DispatchError(task_dicts[loops[l].task]) # None
               /\ loops'[l] # loops[l]) =>
               /\ loops'[l].pc = "finally" /\ loops'[l].raised
               /\ loops'[l].e = DispatchError(task_dicts[loops[l].task])
         /\ (l <= Len(loops) /\ loops[l].pc = "finally" /\ loops'[l] # loops[l]) =>
               /\ loops'[l].pc = "drain"
               /\ turn' = l
               /\ task_history' = Append(task_history, loops[l].task)
         /\ (l <= Len(loops) /\ loops[l].pc = "drain" /\ task_queue # <<>>
               /\ loops'[l] # loops[l]) =>
               /\ loops'[l].pc = "dispatch"
               /\ loops'[l].task = Head(task_queue)
         /\ (l <= Len(loops) /\ loops[l].pc # "exited" /\ loops'[l].pc = "exited") =>
               /\ loops[l].pc = "idle"
               /\ ~("status" \in DOMAIN system_status /\ system_status.status = "running")]_allVars

\* The only drain loop recorded the failure of the first task's workflow and
\* is processing the second task.
C20_Witness ==
    /\ Len(loops) = 1
    /\ Len(task_dicts) = 2
    /\ task_dicts[1].status = "failed"
    /\ task_dicts[1].error = StallError
    /\ InHistory(1)
    /\ loops[1].pc = "run"
    /\ loops[1].task = 2

Running == "status" \in DOMAIN system_status /\ system_status.status = "running"
TaskDone(n) ==
    /\ n \in DOMAIN task_dicts
    /\ InHistory(n)
    /\ task_dicts[n].status \in {"completed", "failed"}

\* C21: as long as the system status stays running, every task accepted by
\* add_task_to_queue eventually is in task_history with status completed or
\* failed; and a drain loop never ends while the status is running.
C21_EveryTaskFinishes ==
    /\ \A n \in 1..MaxTasks :
          (n \in DOMAIN task_dicts) ~> (TaskDone(n) \/ ~Running)
    /\ [][\A l \in 1..Len(loops) :
             (loops[l].pc # "exited" /\ loops'[l].pc = "exited") => ~Running]_allVars

\* The system is running and every submitted task is finished, the last one
\* after the failure of the one before it.
C21_Witness ==
    /\ Running
    /\ Len(task_dicts) = MaxTasks
    /\ \A n \in DOMAIN task_dicts : TaskDone(n)
    /\ task_dicts[1].status = "failed"

\* The workflow of the queued task n failed and the failure is recorded.
WorkflowFailed(n) ==
    /\ n \in DOMAIN task_dicts
    /\ InHistory(n)
    /\ "error" \in DOMAIN task_dicts[n]
    /\ task_dicts[n].error = StallError

\* C22: a queued task whose workflow failed has status failed and the failure
\* text as its error, get_task_status of its id returns it from the history,
\* it is not in the queue again, no drain loop processes it again and its
\* record does not change any more.
C22_FailedTaskStaysFailed ==
    /\ [](turn = 0 =>
            \A n \in DOMAIN task_dicts : WorkflowFailed(n) =>
               /\ task_dicts[n].status = "failed"
               /\ get_task_status(task_dicts[n].task_id, active_tasks,
                                  task_history, task_dicts) = <<task_dicts[n]>>
               /\ ~InQueue(n)
               /\ \A l \in 1..Len(loops) :
                     loops[l].pc \in {"dispatch", "run", "finally"} => loops[l].task # n)
    /\ [][\A n \in DOMAIN task_dicts : WorkflowFailed(n) =>
             /\ task_dicts'[n] = task_dicts[n]
             /\ InHistory(n)']_allVars

ResearchChain == <<"search_step", "analysis_step", "verification_step", "content_step">>

\* The drain loop l executes the workflow of a research task and awaits the
\* k-th step of the chain.
AwaitsChainStep(l, k) ==
    /\ l \in 1..Len(loops)
    /\ loops[l].pc = "run"
    /\ TaskType(task_dicts[loops[l].task]) = "research"
    /\ loops[l].run.tasks = <<ResearchChain[k]>>

\* C23: the workflow of a queued research task is the chain search_step,
\* analysis_step, verification_step, content_step; each round launches one
\* step, the next of the chain after the ones that completed; the worker of a
\* later step receives the result of the step before it as its data; and when
\* the worker of content_step returns as the three before it did, the task is
\* completed with a result that holds the outputs of the four steps.
C23_ResearchChain ==
    /\ [](\A l \in 1..Len(loops) :
            (loops[l].pc = "run" /\ TaskType(task_dicts[loops[l].task]) = "research") =>
               LET r == loops[l].run
                   k == Cardinality(r.completed_steps) + 1
               IN /\ StepIdsOf(r.steps) = ResearchChain
                  /\ \A j \in 1..4 : r.steps[j] = create_research_workflow[j]
                  /\ k \in 1..4
                  /\ r.completed_steps = {ResearchChain[j] : j \in 1..(k - 1)}
                  /\ r.ready_steps = <<ResearchChain[k]>>
                  /\ r.tasks = <<ResearchChain[k]>>
                  /\ DOMAIN r.received = {ResearchChain[k]}
                  /\ IF k = 1
                     THEN r.received[ResearchChain[k]] = None
                     ELSE /\ r.received[ResearchChain[k]] = r.results[ResearchChain[k - 1]]
                          /\ r.received[ResearchChain[k]] = WorkerOutput(ResearchChain[k - 1]))
    /\ [][\A l \in 1..Len(loops) :
            (AwaitsChainStep(l, 4) /\ loops'[l] # loops[l]) =>
               LET n == loops[l].task
                   all == [s \in {ResearchChain[j] : j \in 1..4} |-> WorkerOutput(s)]
               IN /\ loops'[l].pc = "finally"
                  /\ task_dicts'[n].status = "completed"
                  /\ task_dicts'[n].result.status = "completed"
                  /\ \/ task_dicts'[n].result.results = all
                     \/ task_dicts'[n].result.results = loops[l].run.results]_allVars

\* A research task went through the four rounds and is completed with the
\* output of content_step in its result.
C23_Witness ==
    \E n \in DOMAIN task_dicts :
        /\ TaskType(task_dicts[n]) = "research"
        /\ task_dicts[n].status = "completed"
        /\ InHistory(n)
        /\ DOMAIN task_dicts[n].result.results = {ResearchChain[j] : j \in 1..4}
        /\ task_dicts[n].result.results["content_step"] = WorkerOutput("content_step")

\* C24: get_task_status and get_queue_status leave the coordinator as it is
\* and return what their code reads from it; get_task_status of the id of a
\* finished task that no other task shares returns that task's record, and
\* what a call returned is what the next call returns when no other operation
\* comes in between.
C24_QueriesReadOnly ==
    [][reply' # reply =>
         /\ UNCHANGED <<vars, coordVars, tierVars>>
         /\ reply'.op = "get_queue_status" =>
               reply'.returned = get_queue_status(task_queue', active_tasks',
                                                  task_history', task_dicts')
         /\ reply'.op = "get_task_status" =>
               /\ \A n \in DOMAIN task_dicts :
                     (/\ TaskDone(n)
                      /\ task_dicts[n].task_id = reply'.task_id
                      /\ \A m \in DOMAIN task_dicts \ {n} :
                            task_dicts[m].task_id # reply'.task_id)
                     => reply'.returned = <<task_dicts[n]>>
               /\ reply'.returned = get_task_status(reply'.task_id, active_tasks',
                                                    task_history', task_dicts')]_everyVars

\* get_task_status returned the record of a failed task twice in a row.
C24_Witness ==
    /\ reply.op = "get_task_status"
    /\ \E n \in DOMAIN task_dicts :
          /\ TaskDone(n)
          /\ task_dicts[n].status = "failed"
          /\ reply.task_id = task_dicts[n].task_id
          /\ ~InActive(n)
          /\ \A m \in DOMAIN task_dicts \ {n} : task_dicts[m].task_id # reply.task_id

\* C25: the end of an execute_workflow call on the created workflow appends
\* one record to workflow_history, with status completed and the results map
\* the call returns or with status failed and the text of the exception the
\* call raises; no other step changes workflow_history, so its records are
\* never removed or reordered.
C25_OneRecordPerCall ==
    [][/\ (pc # "idle" /\ pc' = "idle") =>
             /\ Len(workflow_history') = Len(workflow_history) + 1
             /\ SubSeq(workflow_history', 1, Len(workflow_history)) = workflow_history
             /\ LET rec == workflow_history'[Len(workflow_history')]
                IN rec \in { [workflow_id |-> wid, status |-> "completed",
                              results |-> results],
                             [workflow_id |-> wid, status |-> "failed",
                              error |-> StallError] }
             /\ LET rec == workflow_history'[Len(workflow_history')]
                IN IF rec.status = "completed"
                   THEN /\ last_return'.kind = "return"
                        /\ last_return'.results = rec.results
                   ELSE /\ last_return'.kind = "raise"
                        /\ last_return'.error = rec.error
       /\ ~(pc # "idle" /\ pc' = "idle") => workflow_history' = workflow_history]_vars

\* Two calls have ended and the history holds their two records in the order
\* of the calls: the first returned the results of its steps, the second,
\* which found no step to run, returned an empty map.
C25_Witness ==
    /\ pc = "idle"
    /\ Len(workflow_history) = 2
    /\ workflow_history[1].status = "completed"
    /\ workflow_history[1].results # <<>>
    /\ workflow_history[2].status = "completed"
    /\ workflow_history[2].results = <<>>
    /\ last_return.kind = "return"

\* C26: execute_workflow on an id that was never created raises "Workflow
\* <id> not found" and leaves the engine as it was: no record in
\* active_workflows, no entry in workflow_history, no step launched.
C26_UnknownWorkflowFails ==
    [][(wid \notin DOMAIN workflows /\ wid \notin DOMAIN workflows') =>
          /\ last_return' \in {last_return,
                               [kind |-> "raise", error |-> "Workflow wf not found"]}
          /\ UNCHANGED <<workflows, status, result, error, active_workflows,
                         workflow_history, pc, worker_calls>>
          /\ UNCHANGED localVars
          /\ active_workflows = <<>>
          /\ workflow_history = <<>>
          /\ coros = <<>>]_vars

\* The call on the id that was never created has raised.
C26_Witness ==
    /\ wid \notin DOMAIN workflows
    /\ last_return = [kind |-> "raise", error |-> "Workflow wf not found"]
    /\ pc = "idle"
    /\ active_workflows = <<>>

\* C27: in every store, a store(key, value, metadata) call leaves value as
\* what retrieve(key) returns and metadata as the metadata recorded for the
\* key (none recorded when the call gave none), whatever was stored under
\* the key before; retrieve of a key that was never stored returns None.
C27_LastWriterWins ==
    /\ [](\A t \in Stores, key \in Keys :
            key \notin DOMAIN stores[t].data => retrieve(stores[t], key) = None)
    /\ [][\A t \in Stores, key \in Keys, value \in Values, metadata \in Metadatas :
            Store(t, key, value, metadata) =>
               /\ retrieve(stores'[t], key) = value
               /\ IF Truthy(metadata)
                  THEN MetadataOf(stores'[t], key) = metadata
                  ELSE ~Truthy(MetadataOf(stores'[t], key))]_everyVars

\* C28: a get_knowledge_node read of a node raises its access_count by one,
\* and no operation of the repository (add_knowledge_node, get_knowledge_node,
\* import_knowledge, search, store) lowers the access_count of a node.
C28_AccessCountGrows ==
    [][\A id \in DOMAIN knowledge_graph :
          /\ id \in DOMAIN knowledge_graph'
          /\ knowledge_graph'[id].access_count >= knowledge_graph[id].access_count
          /\ (reply' # reply /\ reply'.op = "get_knowledge_node"
                /\ reply'.returned = <<knowledge_graph'[id]>>
                /\ knowledge_graph' # knowledge_graph) =>
                knowledge_graph'[id].access_count = knowledge_graph[id].access_count + 1]_everyVars

\* C29: import_knowledge(export_knowledge()) on the repository itself leaves
\* knowledge_graph and relationships as they were, and on a repository that
\* was just constructed it makes them equal to those of the exporter.
C29_RoundTrip ==
    [][/\ ImportExport =>
             /\ knowledge_graph' = knowledge_graph
             /\ relationships' = relationships
       /\ ImportIntoNew =>
             /\ reply'.knowledge_graph = knowledge_graph
             /\ reply'.relationships = relationships]_everyVars

\* C30: get_verification_summary always returns: with no fact check its
\* verification_rate is 0 and with no validation its validation_rate is 0;
\* otherwise verification_rate is verified_claims / total_fact_checks, and
\* 0 <= verified_claims <= total_fact_checks.
C30_SummaryNeverFails ==
    /\ [](reply.op = "get_verification_summary" =>
            /\ "returned" \in DOMAIN reply
            /\ LET r == reply.returned
               IN /\ 0 <= r.verified_claims
                  /\ r.verified_claims <= r.total_fact_checks
                  /\ r.verification_rate.den > 0
                  /\ r.validation_rate.den > 0
                  /\ r.total_fact_checks = 0 => r.verification_rate.num = 0
                  /\ r.total_validations = 0 => r.validation_rate.num = 0
                  /\ r.total_fact_checks > 0 =>
                        r.verification_rate.num * r.total_fact_checks
                           = r.verified_claims * r.verification_rate.den)
    /\ [][(reply' # reply /\ "returned" \in DOMAIN reply') =>
             /\ reply'.returned.total_fact_checks = Cardinality(DOMAIN fact_checks)
             /\ reply'.returned.total_validations = Cardinality(DOMAIN validations)
             /\ reply'.returned.verified_claims =
                   Cardinality({c \in DOMAIN fact_checks :
                       "status" \in DOMAIN fact_checks[c].result
                       /\ fact_checks[c].result.status = "verified"})]_everyVars

\* The summary of two verified claims out of three, with no validation, was
\* returned: rates 2/3 and 0.
C30_Witness ==
    /\ reply.op = "get_verification_summary"
    /\ reply.returned.total_fact_checks = 3
    /\ reply.returned.verified_claims = 2
    /\ reply.returned.verification_rate = [num |-> 2, den |-> 3]
    /\ reply.returned.total_validations = 0
    /\ reply.returned.validation_rate = [num |-> 0, den |-> 1]

\* -----------------------------------------------------------------------
\* The rounds of one execution

\* Steps of the current round whose coroutine has not ended.
Unfinished == {i \in 1..Len(coros) : coros[i].state \notin {"returned", "raised"}}

\* C32: within one execution, a new ready set is computed, a round is
\* launched and the execution ends only when every coroutine launched in the
\* current round has returned or raised; and a step is started only as a
\* member of the current round.
C32_RoundBarrier ==
    [][/\ (LaunchRound \/ Stall \/ Break \/ WhileExit) => Unfinished = {}
       /\ (ready_steps' # ready_steps \/ tasks' # tasks) => Unfinished = {}
       /\ \A s \in DOMAIN status :
            (status[s] # IN_PROGRESS /\ status'[s] = IN_PROGRESS)
                => \E i \in Unfinished : tasks[i] = s]_vars

\* A second round is in flight: a step of it is running after a step of the
\* first round was booked.
C32_Witness ==
    /\ pc = "gather"
    /\ completed_steps # {}
    /\ \E i \in 1..Len(coros) : coros[i].state = "running"

\* -----------------------------------------------------------------------
\* cancel_workflow during an execution

Cancelled ==
    wid \in DOMAIN active_workflows /\ active_workflows[wid].status = "cancelled"

\* C33: a step that sets the record of the workflow to cancelled changes
\* nothing else: no step's state, result or error, no coroutine of the round
\* in flight, no worker call and no local of the execution; and at the head
\* of the loop of a cancelled workflow with ready steps the next step of the
\* execution is the launch of these steps.
C33_CancelOnlyMarksRecord ==
    /\ [][(Cancelled' /\ ~Cancelled) =>
            /\ active_workflows' = [active_workflows EXCEPT ![wid].status = "cancelled"]
            /\ UNCHANGED <<workflows, status, result, error, workflow_history,
                           pc, last_return, worker_calls, localVars>>]_vars
    /\ [][(Cancelled /\ pc = "loop" /\ ReadySteps(status, completed_steps) # <<>>) =>
            /\ ready_steps' = ReadySteps(status, completed_steps)
            /\ tasks' = Tasks(ready_steps', agents)
            /\ \A i \in 1..Len(tasks') : coros'[i].state = "created"
            /\ Cancelled']_vars
    /\ [](Cancelled /\ pc = "loop" /\ ReadySteps(status, completed_steps) # <<>>
            => ENABLED LaunchRound)

\* The workflow was cancelled during a round, the round is over and steps
\* are ready for the next one.
C33_Witness ==
    /\ Cancelled
    /\ pc = "loop"
    /\ completed_steps # {}
    /\ ReadySteps(status, completed_steps) # <<>>

\* -----------------------------------------------------------------------
\* Results and errors of the steps

\* C34: at every moment a step has a result only if its state is COMPLETED
\* and an error only if its state is FAILED.
C34_ResultAndErrorMatchState ==
    \A s \in DOMAIN status :
        /\ result[s] # None => status[s] = COMPLETED
        /\ error[s] # None => status[s] = FAILED

\* -----------------------------------------------------------------------
\* A second execution of a workflow

NoneLeftPending == \A s \in DOMAIN status : status[s] # PENDING

\* C37: execute_workflow does not touch the states, results and errors of
\* the steps when it starts; and an execution that starts on steps that have
\* all left PENDING launches no step, calls no worker, and ends at once
\* returning status completed with an empty results map and appending a
\* completed record with that map to the history.
C37_SecondExecutionCompletesEmpty ==
    /\ [][(pc = "idle" /\ pc' = "loop") =>
            /\ status' = status /\ result' = result /\ error' = error
            /\ results' = <<>> /\ completed_steps' = {}]_vars
    /\ [][(pc = "loop" /\ NoneLeftPending /\ completed_steps = {}
                /\ workflow_history # <<>>) =>
            /\ pc' = "idle"
            /\ status' = status /\ worker_calls' = worker_calls
            /\ last_return' = [kind |-> "return", workflow_id |-> wid,
                               status |-> "completed", results |-> <<>>]
            /\ workflow_history' = Append(workflow_history,
                    [workflow_id |-> wid, status |-> "completed", results |-> <<>>])
            /\ active_workflows'[wid].status = "completed"]_vars

\* A second execution has ended on a workflow whose first execution
\* completed a step.
C37_Witness ==
    /\ pc = "idle"
    /\ Len(workflow_history) = 2
    /\ workflow_history[1].status = "completed"
    /\ \E s \in DOMAIN status : status[s] = COMPLETED /\ worker_calls[s].calls = 1
    /\ last_return = [kind |-> "return", workflow_id |-> wid,
                      status |-> "completed", results |-> <<>>]
    /\ workflow_history[2] = [workflow_id |-> wid, status |-> "completed", results |-> <<>>]

\* -----------------------------------------------------------------------
\* The end of a cancelled execution

\* C38: a cancelled status set while the workflow is executing does not
\* survive the execution: the execution ends, the step that ends it sets the
\* record's status to completed or failed and appends a history entry with
\* that same status, and no history entry ever says cancelled.
C38_CancelledDoesNotSurvive ==
    /\ (Cancelled /\ pc # "idle") ~> (pc = "idle" /\ ~Cancelled)
    /\ [][(pc # "idle" /\ pc' = "idle") =>
            /\ active_workflows'[wid].status \in {"completed", "failed"}
            /\ Len(workflow_history') = Len(workflow_history) + 1
            /\ workflow_history'[Len(workflow_history')].status
                    = active_workflows'[wid].status]_vars
    /\ [](\A i \in 1..Len(workflow_history) :
            workflow_history[i].status \in {"completed", "failed"})

\* The workflow was cancelled during a round, every step has completed since
\* and the execution is about to end.
C38_Witness ==
    /\ Cancelled
    /\ pc = "loop"
    /\ completed_steps # {}
    /\ Cardinality(completed_steps) = Len(steps)

\* -----------------------------------------------------------------------
\* The ids of the coordinator's workflows
\* -----------------------------------------------------------------------
\* In this part the clock is read in ticks of 1/TicksPerSecond of a second.
TicksPerSecond == 2
MaxClock == 2
MaxWorkflows == 2
WorkflowKinds == {"research", "analysis", "content"}
WorkflowInputs == {"in1", "in2"}

\* task_coordinator.py lines 28, 78 and 107: the kind and the reading of the
\* clock formatted with '%Y%m%d_%H%M%S', which drops what is below a second
WorkflowId(kind, t) == kind \o "_" \o ToString(t \div TicksPerSecond)

\* task_coordinator.py lines 31-71, 80-100 and 109-120: the step
\* configurations with the query or the data of the call in the first task
WorkflowSteps(kind, input) ==
    CASE kind = "research" ->
            [create_research_workflow EXCEPT ![1].task = Put(@, "query", input)]
      [] kind = "analysis" ->
            [create_analysis_workflow EXCEPT ![1].task.data = input]
      [] OTHER ->
            [create_content_workflow EXCEPT ![1].task.data = input]

\* create_research_workflow, create_analysis_workflow and
\* create_content_workflow called at time t, with create_workflow
\* (workflow_engine.py lines 43-57)
CreateCoordWorkflowAt(kind, input, t) ==
    /\ clock' = t
    /\ workflows' = Put(workflows, WorkflowId(kind, t), WorkflowSteps(kind, input))
    /\ reply' = [op |-> "create_workflow", returned |-> WorkflowId(kind, t)]

\* The coordinator creates a workflow; the clock has moved on since the last
\* reading, or has not.
CreateCoordWorkflow(kind, input) ==
    /\ \E t \in {clock, clock + 1} :
          /\ t <= MaxClock
          /\ Cardinality(DOMAIN workflows \cup {WorkflowId(kind, t)}) <= MaxWorkflows
          /\ CreateCoordWorkflowAt(kind, input, t)
    /\ UNCHANGED <<status, result, error, active_workflows, workflow_history,
                   pc, last_return, worker_calls, localVars>>
    /\ UNCHANGED <<task_queue, active_tasks, task_history, task_dicts,
                   system_status, loops, caller, turn>>
    /\ UNCHANGED <<stores, knowledge_graph, relationships, knowledge_sources,
                   fact_checks, validations, snapshot, tierVars>>

\* execute_research_task, execute_analysis_task and execute_content_task,
\* task_coordinator.py lines 124-140, up to the first await of
\* execute_workflow: the workflow is created and its record set running
\* (workflow_engine.py lines 64-69)
ExecuteCoordTask(kind, input) ==
    /\ \E t \in {clock, clock + 1} :
          /\ t <= MaxClock
          /\ Cardinality(DOMAIN workflows \cup {WorkflowId(kind, t)}) <= MaxWorkflows
          /\ CreateCoordWorkflowAt(kind, input, t)
          /\ active_workflows' = Put(active_workflows, WorkflowId(kind, t),
                [status |-> "running", started_at |-> t,
                 steps |-> WorkflowSteps(kind, input)])
    /\ UNCHANGED <<status, result, error, workflow_history,
                   pc, last_return, worker_calls, localVars>>
    /\ UNCHANGED <<task_queue, active_tasks, task_history, task_dicts,
                   system_status, loops, caller, turn>>
    /\ UNCHANGED <<stores, knowledge_graph, relationships, knowledge_sources,
                   fact_checks, validations, snapshot, tierVars>>

\* workflow_engine.py lines 75-77: an execution ends and marks the record of
\* its workflow id
FinishCoordTask(id) ==
    /\ id \in DOMAIN active_workflows
    /\ active_workflows[id].status = "running"
    /\ active_workflows' = [active_workflows EXCEPT ![id].status = "completed"]
    /\ UNCHANGED <<workflows, status, result, error, workflow_history,
                   pc, last_return, worker_calls, localVars>>
    /\ UNCHANGED <<coordVars, memVars>>

WorkflowIdNext ==
    \/ \E kind \in WorkflowKinds, input \in WorkflowInputs :
            CreateCoordWorkflow(kind, input)
    \/ \E kind \in WorkflowKinds, input \in WorkflowInputs :
            ExecuteCoordTask(kind, input)
    \/ \E kind \in WorkflowKinds, t \in 0..MaxClock :
            FinishCoordTask(WorkflowId(kind, t))

WorkflowIdSpec == Init /\ [][WorkflowIdNext]_everyVars

\* C35: every workflow the coordinator creates gets an id no workflow had
\* before, so a creation leaves the step definitions of the workflows there
\* are alone, and the record of a workflow changes only when its own
\* execution ends.
C35_WorkflowIdsDistinct ==
    [][/\ (\E kind \in WorkflowKinds, input \in WorkflowInputs :
                CreateCoordWorkflow(kind, input) \/ ExecuteCoordTask(kind, input))
            => reply'.returned \notin DOMAIN workflows
       /\ \A id \in DOMAIN workflows :
            id \in DOMAIN workflows' /\ workflows'[id] = workflows[id]
       /\ \A id \in DOMAIN active_workflows :
            \/ active_workflows'[id] = active_workflows[id]
            \/ /\ active_workflows[id].status = "running"
               /\ active_workflows'[id] =
                    [active_workflows[id] EXCEPT !.status = "completed"]]_everyVars

\* -----------------------------------------------------------------------
\* get_task_status and the tasks still queued

\* C36: get_task_status returns a record only of a task that is processing
\* or in the history, and that has the id asked for; for the id of a task
\* that is still waiting in task_queue, as for an id no task has, it returns
\* nothing.
C36_QueuedTaskIsAbsent ==
    turn = 0 =>
        \A id \in TaskIds :
            LET r == get_task_status(id, active_tasks, task_history, task_dicts)
            IN /\ r # <<>> =>
                    \E n \in DOMAIN task_dicts :
                        /\ InActive(n) \/ InHistory(n)
                        /\ task_dicts[n].task_id = id
                        /\ r = <<task_dicts[n]>>
               /\ (\E n \in DOMAIN task_dicts : InQueue(n) /\ task_dicts[n].task_id = id)
                    => r = <<>>
               /\ (\A n \in DOMAIN task_dicts : task_dicts[n].task_id # id)
                    => r = <<>>

\* -----------------------------------------------------------------------
\* Failed and completed tasks of the queue

\* The texts of the exceptions the processing of a queued task raises.
ProcessingErrors == {StallError, "Unknown task type: translate", "'query'"}

\* The drain loop l has caught the end of the processing of its task.
Settled(l) == l \in 1..Len(loops) /\ loops[l].pc = "finally"

\* C39: a queued task is marked failed exactly when its processing raised:
\* at its dispatch, for an unknown type or a missing parameter, or when its
\* workflow stalled because the worker of a step another step depends on
\* raised; the error of the task is the text of the exception.  When the
\* worker of content_step, which no step depends on, raises, nothing is
\* raised and the task is marked completed with content_step absent from its
\* results; when no worker raises the results hold every step.
C39_FailedWhenProcessingRaised ==
    /\ [][\A n \in DOMAIN task_dicts :
            task_dicts'[n].status # task_dicts[n].status
                /\ task_dicts'[n].status \in {"failed", "completed"}
            => \E l \in 1..Len(loops) :
                 /\ loops[l].pc \in {"dispatch", "run"} /\ loops[l].task = n
                 /\ Settled(l)' /\ loops'[l].task = n
                 /\ (task_dicts'[n].status = "failed") <=> loops'[l].raised
                 /\ loops'[l].raised =>
                      /\ loops'[l].e \in ProcessingErrors
                      /\ task_dicts'[n].error = loops'[l].e
                      /\ "result" \notin DOMAIN task_dicts'[n]]_allVars
    /\ [][\A l \in 1..Len(loops) :
            (loops[l].pc = "dispatch" /\ Settled(l)') =>
                LET n == loops[l].task
                IN /\ DispatchError(task_dicts[n]) # None
                   /\ task_dicts'[n].status = "failed"
                   /\ task_dicts'[n].error = DispatchError(task_dicts[n])]_allVars
    /\ [][\A l \in 1..Len(loops) :
            (loops[l].pc = "run" /\ Settled(l)') =>
                LET n == loops[l].task
                    awaited == loops[l].run.tasks
                IN IF awaited = <<"content_step">>
                   THEN /\ task_dicts'[n].status = "completed"
                        /\ DOMAIN task_dicts'[n].result.results \in
                             { {"search_step", "analysis_step", "verification_step"},
                               {"search_step", "analysis_step", "verification_step",
                                "content_step"} }
                   ELSE /\ task_dicts'[n].status = "failed"
                        /\ task_dicts'[n].error = StallError]_allVars

\* A research task is in the history, completed, with the results of every
\* step but content_step.
C39_Witness ==
    \E n \in DOMAIN task_dicts :
        /\ InHistory(n)
        /\ task_dicts[n].status = "completed"
        /\ DOMAIN task_dicts[n].result.results =
                {"search_step", "analysis_step", "verification_step"}

\* -----------------------------------------------------------------------
\* stop_system and the drain pass in progress

\* The drain loop l is inside a call of process_task_queue.
InPass(l) ==
    l \in 1..Len(loops) /\ loops[l].pc \in {"drain", "dispatch", "run", "finally"}

Stopped == "status" \in DOMAIN system_status /\ system_status.status = "stopped"

\* C40: stop_system changes the system status and nothing of the drain
\* loops; a drain pass ends only at an empty task_queue, whatever the system
\* status, so a task that is queued while a pass is in progress ends up in
\* the history, completed or failed; and while no drain loop is left (none
\* started, or all have exited) no task leaves the queue and no task changes.
C40_StopDoesNotInterruptPass ==
    /\ \A n \in 1..MaxTasks :
          (InQueue(n) /\ \E l \in 1..MaxStarts : InPass(l)) ~> TaskDone(n)
    /\ [][(Stopped' /\ ~Stopped) =>
            UNCHANGED <<task_queue, active_tasks, task_history, task_dicts,
                        loops, turn>>]_allVars
    /\ [][\A l \in 1..Len(loops) :
            /\ (InPass(l) /\ ~InPass(l)') =>
                    loops[l].pc = "drain" /\ task_queue = <<>> /\ loops'[l].pc = "idle"
            /\ (loops[l].pc = "drain" /\ task_queue # <<>> /\ loops'[l] # loops[l]) =>
                    /\ loops'[l].pc = "dispatch"
                    /\ loops'[l].task = Head(task_queue)
                    /\ task_queue' = Tail(task_queue)]_allVars
    /\ [][(\A l \in 1..Len(loops) : loops[l].pc = "exited") =>
            /\ \A i \in 1..Len(task_queue) :
                    i <= Len(task_queue') /\ task_queue'[i] = task_queue[i]
            /\ \A n \in DOMAIN task_dicts : task_dicts'[n] = task_dicts[n]
            /\ task_history' = task_history]_allVars

\* The system was stopped, a drain loop is at the head of its pass and a
\* task is queued.
C40_Witness ==
    /\ Stopped
    /\ task_history # <<>>
    /\ task_queue # <<>>
    /\ \E l \in 1..Len(loops) : loops[l].pc = "drain"

\* -----------------------------------------------------------------------
\* search on the SearchMemory tier (src/memory/search_memory.py)
\* -----------------------------------------------------------------------
\* Strings are sequences of characters here, so that lower() and the
\* substring test of "in" are computed.  A Python dict keeps its keys in
\* insertion order; search_results and parsed_data are sequences of entries.
Words == {<<"a">>, <<"A", "b">>}
Queries == {<<"a">>, <<"B">>, <<"b", "a">>}
ResultLists == {"[r1]", "[r2]"}

\* str.lower()
Lower(w) ==
    [i \in 1..Len(w) |-> CASE w[i] = "A" -> "a" [] w[i] = "B" -> "b" [] OTHER -> w[i]]

\* q in w
In(q, w) == \E i \in 0..(Len(w) - Len(q)) : SubSeq(w, i + 1, i + Len(q)) = q

\* d[key] = value on a dict in insertion order
DictPut(d, key, value) ==
    IF \E i \in 1..Len(d) : d[i].key = key
    THEN [i \in 1..Len(d) |-> IF d[i].key = key THEN [key |-> key, value |-> value]
                                                ELSE d[i]]
    ELSE Append(d, [key |-> key, value |-> value])

\* search, lines 65-89: the entries of search_results and then of parsed_data
\* whose key holds the query, whatever the case; md is self.metadata
search(sr, pd, md, query) ==
    LET Hit(e) == In(Lower(query), Lower(e.key))
        found == SelectSeq(sr, Hit)
        parsed == SelectSeq(pd, Hit)
        Meta(k) == IF k \in DOMAIN md THEN md[k] ELSE None
    IN [i \in 1..Len(found) |->
            [type |-> "search_results", key |-> found[i].key, data |-> found[i].value,
             metadata |-> Meta(<<"search_">> \o found[i].key)]]
       \o [i \in 1..Len(parsed) |->
            [type |-> "parsed_data", key |-> parsed[i].key, data |-> parsed[i].value,
             metadata |-> Meta(<<"parsed_">> \o parsed[i].key)]]

\* store_search_results, lines 24-31, with the default processor
StoreSearchResults(query, res) ==
    /\ search_results' = DictPut(search_results, query, res)
    /\ stores' = [stores EXCEPT !["SearchMemory"].metadata =
            Put(@, <<"search_">> \o query, [processor |-> "base", result_count |-> 1])]
    /\ UNCHANGED <<reply, parsed_data, knowledge_graph, relationships,
                   knowledge_sources, fact_checks, validations, snapshot>>
    /\ UNCHANGED <<vars, coordVars>>

\* store_parsed_data, lines 41-47
StoreParsedData(source, data) ==
    /\ parsed_data' = DictPut(parsed_data, source, data)
    /\ stores' = [stores EXCEPT !["SearchMemory"].metadata =
            Put(@, <<"parsed_">> \o source, [data_type |-> "list"])]
    /\ UNCHANGED <<reply, search_results, knowledge_graph, relationships,
                   knowledge_sources, fact_checks, validations, snapshot>>
    /\ UNCHANGED <<vars, coordVars>>

\* search, lines 65-89, called on the tier
SearchTier(query) ==
    /\ reply' = [op |-> "search", query |-> query,
                 returned |-> search(search_results, parsed_data,
                                     stores["SearchMemory"].metadata, query)]
    /\ UNCHANGED <<stores, knowledge_graph, relationships, knowledge_sources,
                   fact_checks, validations, snapshot, tierVars>>
    /\ UNCHANGED <<vars, coordVars>>

\* store, store_search_results, store_parsed_data and search on the tier
TierSearchNext ==
    \/ \E key \in Words, value \in Words : Store("SearchMemory", key, value, None)
    \/ \E query \in Words, res \in ResultLists : StoreSearchResults(query, res)
    \/ \E source \in Words, data \in ResultLists : StoreParsedData(source, data)
    \/ \E query \in Queries : SearchTier(query)

TierSearchSpec == Init /\ [][TierSearchNext]_everyVars

\* C31: every entry stored with store(key, value) whose key or value holds
\* the query, whatever the case, is among the results of the tier's search;
\* the results are the matches of the first dict of the tier, in its
\* iteration order, followed by those of the second.
C31_StoredEntryIsFound ==
    [][reply'.op = "search" =>
        LET data == stores["SearchMemory"].data
            q == reply'.query
        IN /\ \A key \in DOMAIN data :
                (In(Lower(q), Lower(key)) \/ In(Lower(q), Lower(data[key])))
                    => \E i \in 1..Len(reply'.returned) :
                          /\ reply'.returned[i].key = key
                          /\ reply'.returned[i].data = data[key]
           /\ reply'.returned =
                search(search_results, parsed_data,
                       stores["SearchMemory"].metadata, q)]_everyVars
====
